---- MODULE Spec2Model ----
\* Model of the tex3ds decompression engine of citro3d:
\*   - the streaming buffer      (source/tex3ds/buffer.c, tex3ds/buffer.h)
\*   - the scatter-gather cursor (source/tex3ds/decompress.c, the iov_ helpers)
\*   - the dispatcher and the five decode strategies (decompress.c)
\*   - the file-descriptor / stdio import wrappers (tex3ds.c)
\*
\* An assert() that fails ends the call with the outcome "abort"; a read
\* of a region descriptor past the end of the descriptor array, or of a
\* never-initialised field, yields an arbitrary value, chosen when it is read.
EXTENDS Integers, Sequences, FiniteSets, TLC

\* ------------------------------------------------------------------ bounds
\* Total output capacity of the region sets.
MaxCap == 6
\* Largest number of regions of a region set.
MaxRegions == 2
\* Largest capacity (limit) of the streaming buffer.
MaxLimit == 2
\* Largest declared size (low byte of the header's size field): one more than
\* the capacity, so that the declared size may exceed it.
MaxDecl == MaxCap + 1
\* Largest number of payload bytes the source delivers after the header.
MaxPayload == 4

\* ------------------------------------------------------------ arithmetic
\* The largest size_t value.  Model-checked integers end at 2^31 - 1, which
\* stands here for the 2^32 - 1 of the target: the model only needs SIZE_MAX
\* to exceed every real size and SIZE_MAX + 1 to wrap to 0.
SIZE_MAX == 2147483647

Min(a, b) == IF a < b THEN a ELSE b

RECURSIVE BitAnd(_, _)
BitAnd(a, b) ==
  IF a = 0 \/ b = 0 THEN 0
  ELSE (a % 2) * (b % 2) + 2 * BitAnd(a \div 2, b \div 2)

RECURSIVE BitOr(_, _)
BitOr(a, b) ==
  IF a = 0 THEN b
  ELSE IF b = 0 THEN a
  ELSE (IF (a % 2) + (b % 2) > 0 THEN 1 ELSE 0) + 2 * BitOr(a \div 2, b \div 2)

\* A size_t has 32 bits.  The declared size is the one size that can reach
\* beyond 2^31 - 1; it is held as the signed reading of its 32 bits, Hi8 and
\* Lo24 being its bits 24-31 and 0-23.
Hi8(p) == (p \div 16777216) % 256
Lo24(p) == p % 16777216
FromParts(hi, lo) == (IF hi < 128 THEN hi ELSE hi - 256) * 16777216 + lo

\* a < b for two size_t
ULess(a, b) == IF (a < 0) = (b < 0) THEN a < b ELSE b < 0

\* marks an output byte no store has reached
Unwritten == -1
\* marks memory of env no read has reached
NotRead == -1

\* output memory: the byte at logical offset o, and a store to it
MemAt(m, o) == IF o + 1 \in DOMAIN m THEN m[o + 1] ELSE Unwritten

MemStore(m, o, b) == [j \in DOMAIN m \cup {o + 1} |-> IF j = o + 1 THEN b ELSE m[j]]

VARIABLES
  iov,   \* region sizes of the output vector (Tex3DS_IOVec[].size), cnt = Len(iov)
  mem,   \* output memory: the bytes stored so far, by logical offset + 1
  env,   \* memory the call reads but never wrote: oob is iov[cnt].size, one
         \* descriptor past the array, fill the bytes of the malloc'ed tree table;
         \* each is NotRead until its first read fixes its value
  buf,   \* Tex3DS_Buffer: limit, size, pos, data (the size valid bytes), and total
         \* as the number of increments applied to its never-initialised value
  src,   \* pull source: file delivered so far, eof, pos, full-block policy, failed
         \* (a call returned <= 0), late (a call was made after a failed call),
         \* part (a call of a partial source returned less than it was asked for)
  rd,    \* activation of Tex3DS_BufferRead: n still to read, acc copied to dest, dst, k
  loc,   \* locals of the running decode strategy
  pc,    \* position of the decode call
  ret,   \* outcome of the call: "none", "true", "false", "abort"
  gh,    \* observers: kind and declared size of the header, bytes copied to
         \* callers, a failed malloc, the last back-reference applied
  call   \* the caller: entry point, the run and what it changes, the result of
         \* the first run, and what the import wrapper returned

vars == <<iov, mem, env, buf, src, rd, loc, pc, ret, gh, call>>

\* ------------------------------------------------- scatter-gather cursor
\* A cursor is [num, pos]; cursor results carry ab = TRUE when an assert failed.
iov_begin == [num |-> 0, pos |-> 0]

RECURSIVE SumTo(_, _)
SumTo(v, k) == IF k = 0 THEN 0 ELSE v[k] + SumTo(v, k - 1)

iov_size(v) == SumTo(v, Len(v))

\* iov[num].size as the code reads it: the descriptor when num < cnt, the
\* value behind the array when num = cnt
RegionSize(v, g, num) == IF num < Len(v) THEN v[num + 1] ELSE g

\* the two asserts of iov_addr / iov_increment / iov_read / iov_memmove / iov_memset
iov_addr(v, it) == it.num < Len(v) /\ it.pos < v[it.num + 1]

\* logical offset of a cursor inside the array, 0-based
Offset(v, it) == SumTo(v, it.num) + it.pos

iov_increment(v, it) ==
  IF ~iov_addr(v, it) THEN [num |-> it.num, pos |-> it.pos, ab |-> TRUE]
  ELSE IF it.pos + 1 = v[it.num + 1]
       THEN [num |-> it.num + 1, pos |-> 0, ab |-> FALSE]
       ELSE [num |-> it.num, pos |-> it.pos + 1, ab |-> FALSE]

RECURSIVE iov_add(_, _, _, _)
iov_add(v, g, it, size) ==
  IF it.num > Len(v)                        \* assert(it->num <= it->cnt)
  THEN [num |-> it.num, pos |-> it.pos, ab |-> TRUE]
  ELSE IF ~(RegionSize(v, g, it.num) > it.pos)   \* assert(iov[num].size > pos)
  THEN [num |-> it.num, pos |-> it.pos, ab |-> TRUE]
  ELSE IF RegionSize(v, g, it.num) - it.pos > size
  THEN [num |-> it.num, pos |-> it.pos + size, ab |-> FALSE]
  ELSE iov_add(v, g, [num |-> it.num + 1, pos |-> 0],
               size - (RegionSize(v, g, it.num) - it.pos))

\* whether iov_add(it, size) reads iov[cnt].size: the cursor is at cnt, or
\* size covers what is left of the regions
ReadsBeyond(v, it, size) ==
  it.num >= Len(v) \/ size >= iov_size(v) - Offset(v, it)

\* the values a read of env.oob may find
OobValues == IF env.oob = NotRead THEN {0, 1, SIZE_MAX} ELSE {env.oob}

\* iov_sub that moves back over one region boundary at most
iov_sub_OneHop(v, g, it, size) ==
  IF it.pos >= size
  THEN [num |-> it.num, pos |-> it.pos - size, ab |-> FALSE]
  ELSE IF it.num = 0
  THEN [num |-> it.num, pos |-> it.pos, ab |-> TRUE]
  ELSE [num |-> it.num - 1, pos |-> RegionSize(v, g, it.num - 1) - (size - it.pos), ab |-> FALSE]

RECURSIVE iov_sub(_, _, _, _)
iov_sub(v, g, it, size) ==
  IF it.pos >= size
  THEN [num |-> it.num, pos |-> it.pos - size, ab |-> FALSE]
  ELSE IF it.num = 0                        \* assert(it->num > 0)
  THEN [num |-> it.num, pos |-> it.pos, ab |-> TRUE]
  ELSE iov_sub(v, g, [num |-> it.num - 1, pos |-> RegionSize(v, g, it.num - 1)],
               size - it.pos)

\* while(bytes-- > 0) *outbuf++ = *inbuf++ : bytes stores from offset i to offset o
RECURSIVE CopyBytes(_, _, _, _)
CopyBytes(m, o, i, bytes) ==
  IF bytes = 0 THEN m
  ELSE CopyBytes(MemStore(m, o, MemAt(m, i)), o + 1, i + 1, bytes - 1)

\* the value of bytes after while(bytes-- > 0): the last test decrements 0
AfterCountdown == SIZE_MAX

RECURSIVE iov_memmove(_, _, _, _, _, _)
iov_memmove(v, g, m, out, in, size) ==
  IF size = 0 THEN [mem |-> m, out |-> out, ab |-> FALSE, rb |-> FALSE]
  ELSE IF ~(iov_addr(v, out) /\ iov_addr(v, in))
  THEN [mem |-> m, out |-> out, ab |-> TRUE, rb |-> FALSE]
  ELSE LET orem  == v[out.num + 1] - out.pos
           irem  == v[in.num + 1] - in.pos
           bytes == Min(IF orem < irem THEN orem ELSE irem, size)
           m2    == CopyBytes(m, Offset(v, out), Offset(v, in), bytes)
           o2    == iov_add(v, g, out, AfterCountdown)
           i2    == iov_add(v, g, in, AfterCountdown)
       IN  IF o2.ab \/ i2.ab
           THEN [mem |-> m2, out |-> out, ab |-> TRUE, rb |-> TRUE]
           ELSE [iov_memmove(v, g, m2, [num |-> o2.num, pos |-> o2.pos],
                             [num |-> i2.num, pos |-> i2.pos], size - bytes)
                   EXCEPT !.rb = TRUE]

RECURSIVE FillBytes(_, _, _, _)
FillBytes(m, o, val, bytes) ==
  IF bytes = 0 THEN m
  ELSE FillBytes(MemStore(m, o, val), o + 1, val, bytes - 1)

\* iov_memset that stops at the end of the current region
iov_memset_OneRegion(v, g, m, out, val, size) ==
  IF size = 0 THEN [mem |-> m, out |-> out, ab |-> FALSE, rb |-> FALSE]
  ELSE IF ~iov_addr(v, out)
  THEN [mem |-> m, out |-> out, ab |-> TRUE, rb |-> FALSE]
  ELSE LET bytes == Min(v[out.num + 1] - out.pos, size)
           m2    == FillBytes(m, Offset(v, out), val, bytes)
           o2    == iov_add(v, g, out, bytes)
       IN  [mem |-> m2, out |-> IF o2.ab THEN out ELSE [num |-> o2.num, pos |-> o2.pos],
            ab |-> o2.ab, rb |-> ReadsBeyond(v, out, bytes)]

RECURSIVE iov_memset(_, _, _, _, _, _)
iov_memset(v, g, m, out, val, size) ==
  IF size = 0 THEN [mem |-> m, out |-> out, ab |-> FALSE, rb |-> FALSE]
  ELSE IF ~iov_addr(v, out)
  THEN [mem |-> m, out |-> out, ab |-> TRUE, rb |-> FALSE]
  ELSE LET bytes == Min(v[out.num + 1] - out.pos, size)
           m2    == FillBytes(m, Offset(v, out), val, bytes)
           o2    == iov_add(v, g, out, bytes)
           rb    == ReadsBeyond(v, out, bytes)
       IN  IF o2.ab
           THEN [mem |-> m2, out |-> out, ab |-> TRUE, rb |-> rb]
           ELSE LET f == iov_memset(v, g, m2, [num |-> o2.num, pos |-> o2.pos], val, size - bytes)
                IN  [f EXCEPT !.rb = rb \/ f.rb]

\* ------------------------------------------------------------ input family
\* codec kinds of the type byte (bits 0-6)
KindStored == 0
KindLzss   == 16
KindLz11   == 17
KindHuff   == 40
KindRle    == 48
\* a kind no strategy handles
KindUnknown == 5
ExtFlag == 128

Kinds == {KindStored, KindLzss, KindLz11, KindHuff, KindRle}

\* type bytes of the input family: every kind, an unknown kind, and the
\* stored kind and the unknown kind with the extended-size flag
TypeBytes == Kinds \cup {KindUnknown, ExtFlag + KindStored, ExtFlag + KindUnknown}

\* type bytes of the records behind the metadata of an import
ImportTypeBytes == {KindStored, KindRle}

HeaderLen(type) == IF type >= ExtFlag THEN 8 ELSE 4

\* payload bytes of the input family, by kind and by offset j in the payload
\* (pay is the payload delivered so far)
HuffTreeLen(pay) == (pay[1] + 1) * 2 - 1

PayloadBytes(kind, pay) ==
  LET j == Len(pay) IN
  CASE kind = KindStored -> IF j < MaxCap THEN {65, 66} ELSE {}
    [] kind = KindRle    -> IF j < MaxPayload THEN {0, 1, 128} ELSE {}
    [] kind = KindLzss   -> IF j < MaxPayload THEN {0, 32, 64} ELSE {}
    [] kind = KindLz11   -> IF j < MaxPayload THEN {0, 16, 64} ELSE {}
    [] kind = KindHuff   ->
         IF j = 0 THEN {0, 1, 2}
         ELSE IF j <= HuffTreeLen(pay) /\ pay[1] = 2
         THEN (IF j = 1 THEN {0, 193} ELSE IF j = 4 THEN {128} ELSE {192})
         ELSE IF j <= HuffTreeLen(pay) THEN {128, 192}
         ELSE IF j >= HuffTreeLen(pay) + MaxPayload + 1 THEN {}
         ELSE IF (j - HuffTreeLen(pay) - 1) % 4 = 3 THEN {0, 64}
         ELSE {0}
    [] OTHER -> IF j < 1 THEN {0} ELSE {}

\* blocks a flags byte of LZSS and LZ11 gates: for(i = 0; i < 8 && ...)
GroupSize == 8

\* the bytes the source may deliver after the prefix p of a compressed record;
\* an LZSS or LZ11 record of declared size GroupSize is a flags byte 0, the
\* GroupSize raw bytes of its blocks, and one byte behind them
RecordBytes(p, meta) ==
  LET n == Len(p) IN
  IF n = 0 THEN (IF meta = 0 THEN TypeBytes ELSE ImportTypeBytes)
  ELSE IF n = 1 THEN (IF p[1] = ExtFlag + KindStored THEN {0, MaxDecl}
                      ELSE IF p[1] \in {KindLzss, KindLz11} THEN (0 .. MaxDecl) \cup {GroupSize}
                      ELSE 0 .. MaxDecl)
  ELSE IF n >= 4 /\ p[1] \in {KindLzss, KindLz11} /\ p[2] = GroupSize
  THEN (IF n < 4 + GroupSize + 2 THEN {0} ELSE {})
  ELSE IF n < 4 THEN (IF p[1] % ExtFlag = KindUnknown THEN {0, 1} ELSE {0})
  ELSE IF n = 4 /\ n < HeaderLen(p[1])
  THEN (IF p[1] % ExtFlag = KindUnknown THEN {0, 1, 128, 255} ELSE {0, 128})
  ELSE IF n = 5 /\ n < HeaderLen(p[1])
  THEN (IF p[1] % ExtFlag = KindUnknown THEN {0, 1} ELSE {0})
  ELSE IF n < HeaderLen(p[1]) THEN {0}
  ELSE PayloadBytes(p[1] % ExtFlag, SubSeq(p, HeaderLen(p[1]) + 1, n))

\* texture formats of the input family: GPU_RGBA8, and a byte that is no format
GPU_RGBA8 == 0
NoFormat == 255

\* the metadata an import reads before the compressed record: numSubTextures
\* (2 bytes, 0 here), texture_params, format, mipmapLevels
MetaLen == 5

MetaBytes(n) == IF n = 3 THEN {GPU_RGBA8, NoFormat} ELSE {0}

\* the bytes the source may deliver after the prefix p of its input; meta is
\* the length of the metadata in front of the record
InputBytes(p, meta) ==
  IF Len(p) < meta THEN MetaBytes(Len(p))
  ELSE IF meta > 0 /\ p[4] = NoFormat THEN {}
  ELSE RecordBytes(SubSeq(p, meta + 1, Len(p)), meta)

\* no input of the family is longer
LongestInput == MetaLen + 8 + 4 + MaxPayload + MaxCap

\* all extensions of p by m further bytes
RECURSIVE Ext(_, _, _)
Ext(p, m, meta) ==
  IF m = 0 THEN {<< >>}
  ELSE UNION {{<<b>> \o e : e \in Ext(Append(p, b), m - 1, meta)} : b \in InputBytes(p, meta)}

\* ------------------------------------------------------------- pull source
\* One call callback(userdata, buffer->data, max): the returns the source can
\* make.  file is the logical input delivered so far and grows when the call
\* reads past its end; eof is set once the source has reported its end.
\* A full-block source returns max bytes unless the input ends first; any
\* other source returns any positive count.  At the end of the input the
\* source returns 0 (end of input) or -1 (error).
PosReturn(s, k, e, end, max) ==
  [rc    |-> k,
   bytes |-> SubSeq(s.file \o e, s.pos + 1, s.pos + k),
   src   |-> [s EXCEPT !.file = s.file \o e, !.pos = s.pos + k,
                       !.eof = end, !.late = s.late \/ s.failed,
                       !.part = s.part \/ (k < max /\ ~s.full)]]

Callback(s, max) ==
  LET avail == Len(s.file) - s.pos
      Within == {PosReturn(s, k, << >>, s.eof, max) :
                   k \in {k \in 1 .. Min(max, avail) : ~s.full \/ k = max \/ (s.eof /\ k = avail)}}
      most   == Min(max, LongestInput)
      Beyond == IF s.eof THEN {}
                ELSE UNION {{PosReturn(s, k, e, FALSE, max) : e \in Ext(s.file, k - avail, s.meta)} :
                              k \in {k \in (avail + 1) .. most : ~s.full \/ k = max}}
      Short  == IF s.eof \/ ~s.full THEN {}
                ELSE UNION {{PosReturn(s, k, e, TRUE, max) : e \in Ext(s.file, k - avail, s.meta)} :
                              k \in {k \in 1 .. Min(max - 1, LongestInput) : k >= avail}}
      End    == IF avail > 0 THEN {}
                ELSE {[rc |-> z, bytes |-> << >>,
                       src |-> [s EXCEPT !.eof = TRUE, !.failed = TRUE,
                                         !.late = s.late \/ s.failed]] : z \in {0, -1}}
  IN  Within \cup Beyond \cup Short \cup End

\* -------------------------------------------------------- streaming buffer
\* values a size_t that was never initialised may hold
Uninitialised == {0, 1, SIZE_MAX}

\* g + n on a size_t
AddWrap(g, n) == IF g > SIZE_MAX - n THEN n - (SIZE_MAX - g) - 1 ELSE g + n

\* Tex3DS_BufferInit: sets limit, size and pos; total is not assigned and
\* keeps whatever the memory of the object held
Tex3DS_BufferInit(limit) ==
  [limit |-> limit, size |-> 0, pos |-> 0, total |-> 0, data |-> << >>]

\* the values buffer->total may hold: the never-initialised value plus the
\* increments applied since
TotalValues(b) == {AddWrap(g, b.total) : g \in Uninitialised}

\* the resident branch without buffer->pos += size
ReadResident_NoAdvance(b, n) ==
  [bytes |-> SubSeq(b.data, b.pos + 1, b.pos + n),
   buf   |-> b]

\* Tex3DS_BufferRead, the branch "entire request is in our buffer"
ReadResident(b, n) ==
  [bytes |-> SubSeq(b.data, b.pos + 1, b.pos + n),
   buf   |-> [b EXCEPT !.pos = b.pos + n]]

\* ReadRefill with a failed source return reported as success once resident
\* bytes were copied
ReadRefill_Partial(b, n, r) ==
  LET part == SubSeq(b.data, b.pos + 1, b.size) IN
  IF r.rc <= 0 /\ Len(part) = 0
  THEN [ok |-> FALSE, bytes |-> part, n |-> n - Len(part),
        buf |-> [b EXCEPT !.size = 0, !.pos = 0, !.data = << >>]]
  ELSE IF r.rc <= 0
  THEN [ok |-> TRUE, bytes |-> part, n |-> 0,
        buf |-> [b EXCEPT !.size = 0, !.pos = 0, !.data = << >>]]
  ELSE [ok |-> TRUE, bytes |-> part, n |-> n - Len(part),
        buf |-> [b EXCEPT !.size = r.rc, !.pos = 0, !.data = r.bytes]]

\* ReadRefill leaving the cursor behind the first byte of a block of several
ReadRefill_SkipPulled(b, n, r) ==
  LET part == SubSeq(b.data, b.pos + 1, b.size) IN
  IF r.rc <= 0
  THEN [ok |-> FALSE, bytes |-> part, n |-> n - Len(part),
        buf |-> [b EXCEPT !.size = 0, !.pos = 0, !.data = << >>]]
  ELSE [ok |-> TRUE, bytes |-> part, n |-> n - Len(part),
        buf |-> [b EXCEPT !.size = r.rc, !.pos = IF r.rc > 1 THEN 1 ELSE 0, !.data = r.bytes]]

\* Tex3DS_BufferRead, the rest of one loop iteration: copy the partial data,
\* empty the buffer, call the source (r is its return), fail on rc <= 0
ReadRefill(b, n, r) ==
  LET part == SubSeq(b.data, b.pos + 1, b.size) IN
  IF r.rc <= 0
  THEN [ok |-> FALSE, bytes |-> part, n |-> n - Len(part),
        buf |-> [b EXCEPT !.size = 0, !.pos = 0, !.data = << >>]]
  ELSE [ok |-> TRUE, bytes |-> part, n |-> n - Len(part),
        buf |-> [b EXCEPT !.size = r.rc, !.pos = 0, !.data = r.bytes]]

\* the source returns a call of Tex3DS_BufferGet can meet: none is made on
\* the fast path (NoCall stands for it)
NoCall(s) == [rc |-> 1, bytes |-> << >>, src |-> s]

GetReturns(b, s) == IF b.pos < b.size THEN {NoCall(s)} ELSE Callback(s, b.limit)

\* Tex3DS_BufferGet whose slow path delivers the first byte pulled without
\* moving the cursor past it
Tex3DS_BufferGet_Stale(b, r) ==
  IF b.pos < b.size
  THEN [ok |-> TRUE, byte |-> b.data[b.pos + 1], src |-> r.src,
        buf |-> [b EXCEPT !.pos = b.pos + 1, !.total = b.total + 1]]
  ELSE LET f == ReadRefill(b, 1, r) IN
       IF ~f.ok
       THEN [ok |-> FALSE, byte |-> 0, src |-> r.src, buf |-> f.buf]
       ELSE [ok |-> TRUE, byte |-> f.buf.data[1], src |-> r.src, buf |-> f.buf]

\* Tex3DS_BufferGet: the fast path delivers the resident byte and counts it
\* in total; otherwise Tex3DS_BufferRead(dest, 1): one refill, then the
\* resident branch
Tex3DS_BufferGet(b, r) ==
  IF b.pos < b.size
  THEN [ok |-> TRUE, byte |-> b.data[b.pos + 1], src |-> r.src,
        buf |-> [b EXCEPT !.pos = b.pos + 1, !.total = b.total + 1]]
  ELSE LET f == ReadRefill(b, 1, r) IN
       IF ~f.ok
       THEN [ok |-> FALSE, byte |-> 0, src |-> r.src, buf |-> f.buf]
       ELSE [ok |-> TRUE, byte |-> f.buf.data[1], src |-> r.src,
             buf |-> ReadResident(f.buf, 1).buf]

\* ------------------------------------------------------------------ state
\* the region sets: at most MaxRegions regions of positive length, of
\* total capacity MaxCap, the regions before the last all of 1 byte or all
\* of 2 bytes (the boundaries lie where the first blocks of a stream cross
\* them); the empty set is the call with iovcnt = 0
RECURSIVE SeqsUpTo(_, _)
SeqsUpTo(S, n) ==
  IF n = 0 THEN {<< >>}
  ELSE SeqsUpTo(S, n - 1) \cup {Append(q, x) : q \in {q \in SeqsUpTo(S, n - 1) : Len(q) = n - 1}, x \in S}

RegionSets ==
  {v \in SeqsUpTo(1 .. MaxCap, MaxRegions) :
     \/ Len(v) = 0
     \/ iov_size(v) = MaxCap /\ \A i \in 1 .. (Len(v) - 1) : v[i] <= 2 /\ v[i] = v[1]}

NoRead == [n |-> 0, want |-> 0, acc |-> << >>, dst |-> "none", k |-> "none"]

NoLocals ==
  [size |-> 0, out |-> iov_begin, flags |-> 0, mask |-> 0, i |-> 0, len |-> 0,
   b0 |-> 0, displen |-> << >>, n |-> 0, caller |-> "none",
   tree |-> << >>, heap |-> "none", word |-> << >>, node |-> 0]

NoObserved ==
  [type |-> -1, decl |-> 0, copied |-> 0, over |-> FALSE, nomem |-> FALSE,
   br |-> [p |-> 0, len |-> 0, disp |-> 0]]

NoFirst == [ret |-> "none", mem |-> << >>, nomem |-> FALSE]

NoCaller(entry) ==
  [entry |-> entry, run |-> 1, variant |-> "none", first |-> NoFirst,
   wrapper |-> "none", start |-> 0, texture |-> FALSE, position |-> 0,
   cause |-> "none"]

\* the read-ahead capacity the import wrappers give the buffer
ImportLimit == 1024

\* the state when the entry point is called: regions v, a buffer fresh from
\* Tex3DS_BufferInit(limit), a source that has delivered nothing
Start(entry, v, limit, full, at) ==
  /\ iov = v
  /\ mem = << >>
  /\ env = [oob |-> NotRead, fill |-> NotRead]
  /\ buf = Tex3DS_BufferInit(limit)
  /\ src = [file |-> << >>, eof |-> FALSE, pos |-> 0, full |-> full,
            failed |-> FALSE, late |-> FALSE, part |-> FALSE,
            meta |-> IF entry = "Import" THEN MetaLen ELSE 0]
  /\ rd = NoRead
  /\ loc = NoLocals
  /\ pc = at
  /\ ret = "none"
  /\ gh = NoObserved
  /\ call = NoCaller(entry)

\* one call of Tex3DS_DecompressV: on any region set from a full-block source;
\* on one region, or on a first region of 1 byte and a second, from a source
\* that may return any positive count; on one region of GroupSize bytes from
\* a full-block source; or one import through
\* Tex3DS_TextureImportFD / Tex3DS_TextureImportStdio, whose read() / fread()
\* of a file return the bytes asked for unless the file ends first
Init ==
  \/ \E v \in RegionSets : Start("DecompressV", v, MaxLimit, TRUE, "call")
  \/ \E limit \in {1, MaxLimit} : Start("DecompressV", <<MaxCap>>, limit, FALSE, "call")
  \/ Start("DecompressV", <<1, MaxCap - 1>>, MaxLimit, FALSE, "call")
  \/ Start("DecompressV", <<GroupSize>>, MaxLimit, TRUE, "call")
  \/ Start("Import", << >>, ImportLimit, TRUE, "meta")

\* effective size of the decode: if(iovsize < size) size = iovsize
EffectiveSize == IF ULess(iov_size(iov), gh.decl) THEN iov_size(iov) ELSE gh.decl

\* the observers after n bytes were copied to a caller of the buffer; over
\* records a byte of the payload delivered when the output already held
\* EffectiveSize bytes
Delivered(n) ==
  [gh EXCEPT !.copied = gh.copied + n,
             !.over = gh.over \/ (/\ n > 0
                                  /\ pc # "meta"
                                  /\ ~(pc = "BufferRead" /\ rd.dst = "header")
                                  /\ Cardinality(DOMAIN mem) >= EffectiveSize)]

\* the call returns v
Return(v) == /\ ret' = v
             /\ pc' = "done"

\* start Tex3DS_BufferRead(dest, n); on success the call goes on at k
StartRead(n, dst, k) ==
  /\ rd' = [n |-> n, want |-> n, acc |-> << >>, dst |-> dst, k |-> k]
  /\ pc' = "BufferRead"
  /\ UNCHANGED ret

\* bytes stored through dest when dest points into the output (iov_addr(out))
StoreAt(m, off, bytes) ==
  [j \in DOMAIN m \cup ((off + 1) .. (off + Len(bytes))) |->
     IF j > off /\ j <= off + Len(bytes) THEN bytes[j - off] ELSE m[j]]

\* ------------------------------------------------------ Tex3DS_BufferRead
\* Tex3DS_BufferRead calling the source again after a return of 0 or less
Tex3DS_BufferRead_Retry ==
  /\ pc = "BufferRead"
  /\ LET dest == Offset(iov, loc.out) + Len(rd.acc) IN
     IF rd.n <= buf.size - buf.pos
     THEN LET f == ReadResident(buf, rd.n) IN
          /\ buf' = f.buf
          /\ rd' = [rd EXCEPT !.n = 0, !.acc = rd.acc \o f.bytes]
          /\ mem' = IF rd.dst = "out" THEN StoreAt(mem, dest, f.bytes) ELSE mem
          /\ gh' = Delivered(Len(f.bytes))
          /\ pc' = rd.k
          /\ UNCHANGED <<src, loc, ret>>
     ELSE \E r \in Callback(src, buf.limit) :
          LET f == ReadRefill(buf, rd.n, r) IN
          /\ buf' = f.buf
          /\ src' = r.src
          /\ rd' = [rd EXCEPT !.n = f.n, !.acc = rd.acc \o f.bytes]
          /\ mem' = IF rd.dst = "out" THEN StoreAt(mem, dest, f.bytes) ELSE mem
          /\ gh' = Delivered(Len(f.bytes))
          /\ UNCHANGED <<pc, ret, loc>>
  /\ UNCHANGED <<iov, env, call>>

\* Tex3DS_BufferRead that does not advance dest past the bytes of a partial
\* copy
Tex3DS_BufferRead_SameDest ==
  /\ pc = "BufferRead"
  /\ LET dest == Offset(iov, loc.out) IN
     IF rd.n <= buf.size - buf.pos
     THEN LET f == ReadResident(buf, rd.n) IN
          /\ buf' = f.buf
          /\ rd' = [rd EXCEPT !.n = 0, !.acc = rd.acc \o f.bytes]
          /\ mem' = IF rd.dst = "out" THEN StoreAt(mem, dest, f.bytes) ELSE mem
          /\ gh' = Delivered(Len(f.bytes))
          /\ pc' = rd.k
          /\ UNCHANGED <<src, loc, ret>>
     ELSE \E r \in Callback(src, buf.limit) :
          LET f == ReadRefill(buf, rd.n, r) IN
          /\ buf' = f.buf
          /\ src' = r.src
          /\ rd' = [rd EXCEPT !.n = f.n, !.acc = rd.acc \o f.bytes]
          /\ mem' = IF rd.dst = "out" THEN StoreAt(mem, dest, f.bytes) ELSE mem
          /\ gh' = Delivered(Len(f.bytes))
          /\ IF f.ok
             THEN UNCHANGED <<pc, ret, loc>>
             ELSE /\ Return("false")
                  /\ loc' = [loc EXCEPT !.heap = IF loc.heap = "live" THEN "freed" ELSE loc.heap]
  /\ UNCHANGED <<iov, env, call>>

\* one iteration of the loop of Tex3DS_BufferRead
Tex3DS_BufferRead ==
  /\ pc = "BufferRead"
  /\ LET dest == Offset(iov, loc.out) + Len(rd.acc) IN
     IF rd.n <= buf.size - buf.pos
     THEN LET f == ReadResident(buf, rd.n) IN
          /\ buf' = f.buf
          /\ rd' = [rd EXCEPT !.n = 0, !.acc = rd.acc \o f.bytes]
          /\ mem' = IF rd.dst = "out" THEN StoreAt(mem, dest, f.bytes) ELSE mem
          /\ gh' = Delivered(Len(f.bytes))
          /\ pc' = rd.k
          /\ UNCHANGED <<src, loc, ret>>
     ELSE \E r \in Callback(src, buf.limit) :
          LET f == ReadRefill(buf, rd.n, r) IN
          /\ buf' = f.buf
          /\ src' = r.src
          /\ rd' = [rd EXCEPT !.n = f.n, !.acc = rd.acc \o f.bytes]
          /\ mem' = IF rd.dst = "out" THEN StoreAt(mem, dest, f.bytes) ELSE mem
          /\ gh' = Delivered(Len(f.bytes))
          /\ IF f.ok
             THEN UNCHANGED <<pc, ret, loc>>
             ELSE /\ Return("false")
                  /\ loc' = [loc EXCEPT !.heap = IF loc.heap = "live" THEN "freed" ELSE loc.heap]
  /\ UNCHANGED <<iov, env, call>>

\* ----------------------------------------------------- Tex3DS_DecompressV
\* the entry without the check of iovcnt
DecompressV_Enter_Unchecked ==
  /\ pc = "call"
  /\ StartRead(4, "header", "header")
  /\ UNCHANGED <<iov, mem, buf, src, loc, gh, env, call>>

\* entry: no region fails before any read; else read the 4 header bytes
DecompressV_Enter ==
  /\ pc = "call"
  /\ IF Len(iov) = 0
     THEN Return("false") /\ UNCHANGED rd
     ELSE StartRead(4, "header", "header")
  /\ UNCHANGED <<iov, mem, buf, src, loc, gh, env, call>>

\* size = header[1] | header[2] << 8 | header[3] << 16
HeaderSize(h) == h[2] + 256 * h[3] + 65536 * h[4]

\* header[4] << 24 in int: 32 bits, a shift into the sign bit wraps
ShiftLeft24(h4) == IF h4 < 128 THEN h4 * 16777216 ELSE (h4 - 256) * 16777216

\* the fifth header byte shifted by 16 instead of 24
HeaderSizeExt_Low(size, h4) == BitOr(size, h4 * 65536)

\* size |= header[4] << 24, the int converted to the size_t of the same bits
HeaderSizeExt(size, h4) ==
  LET x == ShiftLeft24(h4) IN
  FromParts(BitOr(Hi8(size), Hi8(x)), BitOr(Lo24(size), Lo24(x)))

\* the switch with a default that decodes an unknown type as stored
Dispatch_Default(type, size) ==
  LET eff == IF ULess(iov_size(iov), size) THEN iov_size(iov) ELSE size
      l   == [NoLocals EXCEPT !.size = eff]
  IN  CASE type = KindLzss -> loc' = l /\ pc' = "lzss" /\ UNCHANGED ret
        [] type = KindLz11 -> loc' = l /\ pc' = "lz11" /\ UNCHANGED ret
        [] type = KindHuff -> loc' = l /\ pc' = "huff" /\ UNCHANGED ret
        [] type = KindRle  -> loc' = l /\ pc' = "rle" /\ UNCHANGED ret
        [] OTHER ->
             /\ loc' = [l EXCEPT !.n = eff, !.caller = "stored"]
             /\ pc' = "iov_read"
             /\ UNCHANGED ret

\* if(iovsize < size) size = iovsize; then the switch on type
Dispatch(type, size) ==
  LET eff == IF ULess(iov_size(iov), size) THEN iov_size(iov) ELSE size
      l   == [NoLocals EXCEPT !.size = eff]
  IN  CASE type = KindStored ->
             /\ loc' = [l EXCEPT !.n = eff, !.caller = "stored"]
             /\ pc' = "iov_read"
             /\ UNCHANGED ret
        [] type = KindLzss -> loc' = l /\ pc' = "lzss" /\ UNCHANGED ret
        [] type = KindLz11 -> loc' = l /\ pc' = "lz11" /\ UNCHANGED ret
        [] type = KindHuff -> loc' = l /\ pc' = "huff" /\ UNCHANGED ret
        [] type = KindRle  -> loc' = l /\ pc' = "rle" /\ UNCHANGED ret
        [] OTHER -> loc' = l /\ Return("false")

\* after the 4 header bytes: type and size; the extended-size flag asks for
\* 4 further bytes
DecompressV_Header ==
  /\ pc = "header"
  /\ LET type == rd.acc[1]
         size == HeaderSize(rd.acc)
     IN  /\ gh' = [gh EXCEPT !.type = type, !.decl = size]
         /\ IF type >= ExtFlag
            THEN /\ StartRead(4, "header", "header_ext")
                 /\ loc' = [loc EXCEPT !.size = size, !.b0 = type - ExtFlag]
            ELSE Dispatch(type, size) /\ rd' = NoRead
  /\ UNCHANGED <<iov, mem, buf, src, env, call>>

DecompressV_HeaderExt ==
  /\ pc = "header_ext"
  /\ LET size == HeaderSizeExt(loc.size, rd.acc[1]) IN
         /\ gh' = [gh EXCEPT !.decl = size]
         /\ Dispatch(loc.b0, size)
  /\ rd' = NoRead
  /\ UNCHANGED <<iov, mem, buf, src, env, call>>

\* ------------------------------------------------------------------ iov_read
\* the head of the loop of iov_read: done when nothing is left (the stored
\* strategy returns true, the RLE strategy goes on), else the asserts and a
\* Tex3DS_BufferRead of the bytes that fit the current region
iov_read ==
  /\ pc = "iov_read"
  /\ IF loc.n = 0
     THEN /\ IF loc.caller = "stored" THEN Return("true") ELSE pc' = "rle" /\ UNCHANGED ret
          /\ UNCHANGED rd
     ELSE IF ~iov_addr(iov, loc.out)
     THEN Return("abort") /\ UNCHANGED rd
     ELSE StartRead(Min(iov[loc.out.num + 1] - loc.out.pos, loc.n), "out", "iov_read_add")
  /\ UNCHANGED <<iov, mem, buf, src, loc, gh, env, call>>

\* after the read: size -= bytes; iov_add(out, bytes)
iov_read_add ==
  /\ pc = "iov_read_add"
  /\ \E g \in OobValues :
     LET bytes == Len(rd.acc)
         o     == iov_add(iov, g, loc.out, bytes)
     IN  /\ env' = IF ReadsBeyond(iov, loc.out, bytes) THEN [env EXCEPT !.oob = g] ELSE env
         /\ IF o.ab
            THEN Return("abort") /\ UNCHANGED loc
            ELSE /\ loc' = [loc EXCEPT !.n = loc.n - bytes,
                                       !.out = [num |-> o.num, pos |-> o.pos]]
                 /\ pc' = "iov_read"
                 /\ UNCHANGED ret
  /\ rd' = NoRead
  /\ UNCHANGED <<iov, mem, buf, src, gh, call>>

\* ---------------------------------------------------------------- rle_decode
\* loop head: done at size 0; else the control byte, the clamped length and
\* size -= len
rle_decode ==
  /\ pc = "rle"
  /\ IF loc.size = 0
     THEN Return("true") /\ UNCHANGED <<buf, src, loc, gh>>
     ELSE \E r \in GetReturns(buf, src) :
          LET g   == Tex3DS_BufferGet(buf, r)
              raw == IF g.byte >= 128 THEN (g.byte % 128) + 3 ELSE (g.byte % 128) + 1
              len == IF raw > loc.size THEN loc.size ELSE raw
          IN  /\ buf' = g.buf
              /\ src' = g.src
              /\ IF ~g.ok
                 THEN Return("false") /\ UNCHANGED <<loc, gh>>
                 ELSE /\ gh' = Delivered(1)
                      /\ UNCHANGED ret
                      /\ IF g.byte >= 128
                         THEN /\ loc' = [loc EXCEPT !.len = len, !.size = loc.size - len]
                              /\ pc' = "rle_run"
                         ELSE /\ loc' = [loc EXCEPT !.len = len, !.size = loc.size - len,
                                                    !.n = len, !.caller = "rle"]
                              /\ pc' = "iov_read"
  /\ UNCHANGED <<iov, mem, rd, env, call>>

\* compressed block: the byte of the run, then iov_memset(out, byte, len)
rle_run ==
  /\ pc = "rle_run"
  /\ \E r \in GetReturns(buf, src), oob \in OobValues :
       LET g == Tex3DS_BufferGet(buf, r)
           f == iov_memset(iov, oob, mem, loc.out, g.byte, loc.len)
       IN  /\ buf' = g.buf
           /\ src' = g.src
           /\ IF ~g.ok
              THEN Return("false") /\ UNCHANGED <<loc, gh, mem, env>>
              ELSE /\ gh' = Delivered(1)
                   /\ mem' = f.mem
                   /\ env' = IF f.rb THEN [env EXCEPT !.oob = oob] ELSE env
                   /\ IF f.ab
                      THEN Return("abort") /\ UNCHANGED loc
                      ELSE /\ loc' = [loc EXCEPT !.out = f.out]
                           /\ pc' = "rle"
                           /\ UNCHANGED ret
  /\ UNCHANGED <<iov, rd, call>>

\* --------------------------------------------------- back-reference copy
\* lzss_decode lines 278-285 and lz11_decode lines 375-382: clamp len,
\* size -= len, in = out, iov_sub(&in, disp + 1), iov_memmove(&out, &in, size)
BackReference(l, m, len0, disp, g) ==
  LET len  == IF len0 > l.size THEN l.size ELSE len0
      size == l.size - len
      in   == iov_sub(iov, g, l.out, disp + 1)
      f    == iov_memmove(iov, g, m, l.out, [num |-> in.num, pos |-> in.pos], size)
  IN  IF in.ab
      THEN [ab |-> TRUE, mem |-> m, size |-> size, out |-> l.out, rb |-> FALSE,
            br |-> [p |-> Offset(iov, l.out), len |-> len, disp |-> disp]]
      ELSE [ab |-> f.ab, mem |-> f.mem, size |-> size, out |-> f.out, rb |-> f.rb,
            br |-> [p |-> Offset(iov, l.out), len |-> len, disp |-> disp]]

\* --------------------------------------------------------------- lzss_decode
\* loop head: done at size 0; the flags byte when the mask is exhausted
lzss_decode ==
  /\ pc = "lzss"
  /\ loc.size = 0 \/ loc.mask = 0
  /\ IF loc.size = 0
     THEN Return("true") /\ UNCHANGED <<buf, src, loc, gh>>
     ELSE \E r \in GetReturns(buf, src) :
          LET g == Tex3DS_BufferGet(buf, r) IN
          /\ buf' = g.buf
          /\ src' = g.src
          /\ IF ~g.ok
             THEN Return("false") /\ UNCHANGED <<loc, gh>>
             ELSE /\ loc' = [loc EXCEPT !.flags = g.byte, !.mask = 128]
                  /\ gh' = Delivered(1)
                  /\ pc' = "lzss_block"
                  /\ UNCHANGED ret
  /\ UNCHANGED <<iov, mem, rd, env, call>>

\* one block: the first byte of a compressed block, or a raw byte copied
\* to the output
lzss_block ==
  /\ pc = "lzss_block" \/ (pc = "lzss" /\ loc.size > 0 /\ loc.mask # 0)
  /\ IF BitAnd(loc.flags, loc.mask) = 0 /\ ~iov_addr(iov, loc.out)
     THEN Return("abort") /\ UNCHANGED <<buf, src, loc, gh, mem>>
     ELSE \E r \in GetReturns(buf, src) :
          LET g == Tex3DS_BufferGet(buf, r)
              o == iov_increment(iov, loc.out)
          IN  /\ buf' = g.buf
              /\ src' = g.src
              /\ IF ~g.ok
                 THEN Return("false") /\ UNCHANGED <<loc, gh, mem>>
                 ELSE /\ gh' = Delivered(1)
                      /\ UNCHANGED ret
                      /\ IF BitAnd(loc.flags, loc.mask) # 0
                         THEN /\ loc' = [loc EXCEPT !.displen = <<g.byte>>]
                              /\ pc' = "lzss_disp"
                              /\ UNCHANGED mem
                         ELSE /\ mem' = MemStore(mem, Offset(iov, loc.out), g.byte)
                              /\ loc' = [loc EXCEPT !.size = loc.size - 1,
                                                    !.out = [num |-> o.num, pos |-> o.pos],
                                                    !.mask = loc.mask \div 2]
                              /\ pc' = "lzss"
  /\ UNCHANGED <<iov, rd, env, call>>

\* the second byte of a compressed block, then the copy
lzss_disp ==
  /\ pc = "lzss_disp"
  /\ \E r \in GetReturns(buf, src), oob \in OobValues :
       LET g    == Tex3DS_BufferGet(buf, r)
           len  == (loc.displen[1] \div 16) + 3
           disp == (loc.displen[1] % 16) * 256 + g.byte
           f    == BackReference(loc, mem, len, disp, oob)
       IN  /\ buf' = g.buf
           /\ src' = g.src
           /\ IF ~g.ok
              THEN Return("false") /\ UNCHANGED <<loc, gh, mem, env>>
              ELSE /\ gh' = [Delivered(1) EXCEPT !.br = f.br]
                   /\ mem' = f.mem
                   /\ env' = IF f.rb THEN [env EXCEPT !.oob = oob] ELSE env
                   /\ loc' = [loc EXCEPT !.size = f.size, !.out = f.out,
                                         !.displen = << >>, !.mask = loc.mask \div 2]
                   /\ IF f.ab THEN Return("abort") ELSE pc' = "lzss" /\ UNCHANGED ret
  /\ UNCHANGED <<iov, rd, call>>

\* --------------------------------------------------------------- lz11_decode
\* outer loop head: done at size 0; else the flags byte of the next 8 blocks
lz11_decode ==
  /\ pc = "lz11"
  /\ IF loc.size = 0
     THEN Return("true") /\ UNCHANGED <<buf, src, loc, gh>>
     ELSE \E r \in GetReturns(buf, src) :
          LET g == Tex3DS_BufferGet(buf, r) IN
          /\ buf' = g.buf
          /\ src' = g.src
          /\ IF ~g.ok
             THEN Return("false") /\ UNCHANGED <<loc, gh>>
             ELSE /\ loc' = [loc EXCEPT !.flags = g.byte, !.i = 0]
                  /\ gh' = Delivered(1)
                  /\ pc' = "lz11_block"
                  /\ UNCHANGED ret
  /\ UNCHANGED <<iov, mem, rd, env, call>>

\* the end of a round without flags <<= 1
Lz11Advance_NoShift(l) == [l EXCEPT !.i = l.i + 1, !.displen = << >>]

\* the end of one round of for(i = 0; i < 8 && size > 0; i++, flags <<= 1)
Lz11Advance(l) == [l EXCEPT !.i = l.i + 1, !.flags = (l.flags * 2) % 256, !.displen = << >>]

Lz11NextPc(l) == IF l.i < 8 /\ l.size > 0 THEN "lz11_block" ELSE "lz11"

\* one block: the first byte of a compressed block, or a raw byte copied
\* to the output
lz11_block ==
  /\ pc = "lz11_block"
  /\ IF loc.flags < 128 /\ ~iov_addr(iov, loc.out)
     THEN Return("abort") /\ UNCHANGED <<buf, src, loc, gh, mem>>
     ELSE \E r \in GetReturns(buf, src) :
          LET g == Tex3DS_BufferGet(buf, r)
              o == iov_increment(iov, loc.out)
              l == Lz11Advance([loc EXCEPT !.size = loc.size - 1,
                                           !.out = [num |-> o.num, pos |-> o.pos]])
          IN  /\ buf' = g.buf
              /\ src' = g.src
              /\ IF ~g.ok
                 THEN Return("false") /\ UNCHANGED <<loc, gh, mem>>
                 ELSE /\ gh' = Delivered(1)
                      /\ UNCHANGED ret
                      /\ IF loc.flags >= 128
                         THEN /\ loc' = [loc EXCEPT !.displen = <<g.byte>>]
                              /\ pc' = "lz11_disp"
                              /\ UNCHANGED mem
                         ELSE /\ mem' = MemStore(mem, Offset(iov, loc.out), g.byte)
                              /\ loc' = l
                              /\ pc' = Lz11NextPc(l)
  /\ UNCHANGED <<iov, rd, env, call>>

\* bytes a compressed block holds, by the top nibble of its first byte
Lz11BlockLen(d0) == IF d0 \div 16 = 0 THEN 3 ELSE IF d0 \div 16 = 1 THEN 4 ELSE 2

\* length of a compressed block (d holds all its bytes)
Lz11Len(d) ==
  IF d[1] \div 16 = 0 THEN BitOr(d[1] * 16, d[2] \div 16) + 17
  ELSE IF d[1] \div 16 = 1
  THEN BitOr(BitOr((d[1] % 16) * 4096, d[2] * 16), d[3] \div 16) + 273
  ELSE (d[1] \div 16) + 1

\* displacement: low nibble of the byte before the last, and the last byte
Lz11Disp(d) == BitOr((d[Len(d) - 1] % 16) * 256, d[Len(d)])

\* a further byte of a compressed block; after the last one, the copy
lz11_disp ==
  /\ pc = "lz11_disp"
  /\ \E r \in GetReturns(buf, src), oob \in OobValues :
       LET g == Tex3DS_BufferGet(buf, r)
           d == Append(loc.displen, g.byte)
           f == BackReference(loc, mem, Lz11Len(d), Lz11Disp(d), oob)
           l == Lz11Advance([loc EXCEPT !.size = f.size, !.out = f.out])
       IN  /\ buf' = g.buf
           /\ src' = g.src
           /\ IF ~g.ok
              THEN Return("false") /\ UNCHANGED <<loc, gh, mem, env>>
              ELSE IF Len(d) < Lz11BlockLen(d[1])
              THEN /\ gh' = Delivered(1)
                   /\ loc' = [loc EXCEPT !.displen = d]
                   /\ UNCHANGED <<mem, pc, ret, env>>
              ELSE /\ gh' = [Delivered(1) EXCEPT !.br = f.br]
                   /\ mem' = f.mem
                   /\ env' = IF f.rb THEN [env EXCEPT !.oob = oob] ELSE env
                   /\ loc' = l
                   /\ IF f.ab THEN Return("abort")
                      ELSE pc' = Lz11NextPc(l) /\ UNCHANGED ret
  /\ UNCHANGED <<iov, rd, call>>

\* --------------------------------------------------------------- huff_decode
\* the values a byte of the table malloc(512) provides may hold where no
\* read has filled it; the unfilled bytes all hold the same value
FillValues == IF env.fill = NotRead THEN {0, 255} ELSE {env.fill}

\* tree[k]: the byte read into the table, else whatever the memory holds (u)
TreeAt(tree, k, u) == IF k < Len(tree) THEN tree[k + 1] ELSE u

\* the bit of a word assembled most significant byte first
WordBit_BigEndian(wordbuf, bits) ==
  (wordbuf[4 - ((bits - 1) \div 8)] \div (2 ^ ((bits - 1) % 8))) % 2

\* word & mask for word = wordbuf[0] | wordbuf[1] << 8 | wordbuf[2] << 16 |
\* wordbuf[3] << 24 and mask = 1 << (bits - 1): bit (bits - 1) of the word is
\* bit (bits - 1) % 8 of byte (bits - 1) / 8
WordBit(wordbuf, bits) ==
  (wordbuf[((bits - 1) \div 8) + 1] \div (2 ^ ((bits - 1) % 8))) % 2

\* tree = malloc(512), which may fail; then the read of the tree size byte
huff_decode ==
  /\ pc = "huff"
  /\ \/ /\ Return("false")
        /\ gh' = [gh EXCEPT !.nomem = TRUE]
        /\ UNCHANGED <<loc, rd>>
     \/ /\ loc' = [loc EXCEPT !.heap = "live"]
        /\ StartRead(1, "tree", "huff_size")
        /\ UNCHANGED gh
  /\ UNCHANGED <<iov, mem, buf, src, env, call>>

\* a table read of (tree[0] + 1) * 2 bytes
huff_size_Even ==
  /\ pc = "huff_size"
  /\ loc' = [loc EXCEPT !.tree = rd.acc]
  /\ StartRead((rd.acc[1] + 1) * 2, "tree", "huff_tree")
  /\ UNCHANGED <<iov, mem, buf, src, gh, env, call>>

\* the read of the (tree[0] + 1) * 2 - 1 bytes of the table
huff_size ==
  /\ pc = "huff_size"
  /\ loc' = [loc EXCEPT !.tree = rd.acc]
  /\ StartRead((rd.acc[1] + 1) * 2 - 1, "tree", "huff_tree")
  /\ UNCHANGED <<iov, mem, buf, src, gh, env, call>>

\* the table is read: word = 0, mask = 0, node = 1
huff_tree ==
  /\ pc = "huff_tree"
  /\ loc' = [loc EXCEPT !.tree = loc.tree \o rd.acc, !.word = << >>, !.mask = 0, !.node = 1]
  /\ rd' = NoRead
  /\ pc' = "huff_loop"
  /\ UNCHANGED <<iov, mem, buf, src, ret, gh, env, call>>

\* loop head at size 0: free(tree) and return true
huff_done ==
  /\ pc = "huff_loop"
  /\ loc.size = 0
  /\ loc' = [loc EXCEPT !.heap = "freed"]
  /\ Return("true")
  /\ UNCHANGED <<iov, mem, buf, src, rd, gh, env, call>>

\* the word read returning false without free(tree)
huff_word_Leak ==
  /\ pc = "huff_loop"
  /\ loc.size > 0
  /\ loc.mask = 0
  /\ \E r \in GetReturns(buf, src) :
       LET g == Tex3DS_BufferGet(buf, r)
           w == Append(loc.word, g.byte)
       IN  /\ buf' = g.buf
           /\ src' = g.src
           /\ IF ~g.ok
              THEN /\ Return("false")
                   /\ UNCHANGED <<gh, loc>>
              ELSE /\ gh' = Delivered(1)
                   /\ loc' = IF Len(w) = 4
                             THEN [loc EXCEPT !.word = w, !.mask = 32]
                             ELSE [loc EXCEPT !.word = w]
                   /\ UNCHANGED <<pc, ret>>
  /\ UNCHANGED <<iov, mem, rd, env, call>>

\* mask == 0: one of the four bytes of the next word; the mask is 0x80000000
\* (32 bits left) once the word is read
huff_word ==
  /\ pc = "huff_loop"
  /\ loc.size > 0
  /\ loc.mask = 0
  /\ \E r \in GetReturns(buf, src) :
       LET g == Tex3DS_BufferGet(buf, r)
           w == Append(loc.word, g.byte)
       IN  /\ buf' = g.buf
           /\ src' = g.src
           /\ IF ~g.ok
              THEN /\ Return("false")
                   /\ loc' = [loc EXCEPT !.heap = "freed"]
                   /\ UNCHANGED gh
              ELSE /\ gh' = Delivered(1)
                   /\ loc' = IF Len(w) = 4
                             THEN [loc EXCEPT !.word = w, !.mask = 32]
                             ELSE [loc EXCEPT !.word = w]
                   /\ UNCHANGED <<pc, ret>>
  /\ UNCHANGED <<iov, mem, rd, env, call>>

\* one bit of the word: the child of the node, emitted when it is a data
\* node, else made the current node; then mask >>= 1
huff_bit ==
  /\ pc = "huff_loop"
  /\ loc.size > 0
  /\ loc.mask > 0
  /\ \E u \in FillValues :
       LET nodeb  == TreeAt(loc.tree, loc.node, u)
           offset == nodeb % 32
           bit    == WordBit(loc.word, loc.mask)
           child  == (loc.node - (loc.node % 2)) + offset * 2 + 2 + bit
           data   == IF bit = 1 THEN BitAnd(nodeb, 64) # 0 ELSE BitAnd(nodeb, 128) # 0
           o      == iov_increment(iov, loc.out)
           rest   == IF loc.mask = 1 THEN [loc EXCEPT !.mask = 0, !.word = << >>]
                     ELSE [loc EXCEPT !.mask = loc.mask - 1]
       IN  /\ env' = IF loc.node >= Len(loc.tree) \/ (data /\ child >= Len(loc.tree))
                      THEN [env EXCEPT !.fill = u] ELSE env
           /\ IF ~data
              THEN /\ loc' = [rest EXCEPT !.node = child]
                   /\ UNCHANGED <<mem, pc, ret>>
              ELSE IF ~iov_addr(iov, loc.out)
              THEN Return("abort") /\ UNCHANGED <<mem, loc>>
              ELSE /\ mem' = MemStore(mem, Offset(iov, loc.out), TreeAt(loc.tree, child, u))
                   /\ loc' = [rest EXCEPT !.node = 1, !.size = loc.size - 1,
                                          !.out = [num |-> o.num, pos |-> o.pos]]
                   /\ UNCHANGED <<pc, ret>>
  /\ UNCHANGED <<iov, buf, src, rd, gh, call>>

\* ------------------------------------------------------------ texture_import
\* width * height of texture_params: 1 << ((params & 7) + 3) and
\* 1 << (((params >> 3) & 7) + 3)
TexPixels(params) == (2 ^ ((params % 8) + 3)) * (2 ^ (((params \div 8) % 8) + 3))

calc_tex_size(format, num) == IF format = GPU_RGBA8 THEN num * 4 ELSE 0

\* one byte of the metadata (decode_u16, decode_u8: Tex3DS_BufferGet); the
\* malloc of the texture after numSubTextures and C3D_TexInitWithParams
\* after the last byte may fail (ok = FALSE); then the texture memory is the
\* one region Tex3DS_Decompress writes
texture_import ==
  /\ pc = "meta"
  /\ \E r \in GetReturns(buf, src), ok \in BOOLEAN :
       LET g       == Tex3DS_BufferGet(buf, r)
           m       == Append(loc.displen, g.byte)
           texsize == calc_tex_size(m[4], TexPixels(m[3]))
       IN  /\ buf' = g.buf
           /\ src' = g.src
           /\ IF ~g.ok
              THEN Return("false") /\ UNCHANGED <<loc, gh, iov>>
              ELSE /\ gh' = Delivered(1)
                   /\ IF Len(m) < MetaLen
                      THEN IF Len(m) = 2 /\ ~ok
                           THEN Return("false") /\ UNCHANGED <<loc, iov>>
                           ELSE /\ loc' = [loc EXCEPT !.displen = m]
                                /\ UNCHANGED <<pc, ret, iov>>
                      ELSE IF texsize = 0 \/ ~ok
                      THEN Return("false") /\ UNCHANGED <<loc, iov>>
                      ELSE /\ iov' = <<texsize>>
                           /\ loc' = NoLocals
                           /\ pc' = "call"
                           /\ UNCHANGED ret
  /\ UNCHANGED <<mem, env, rd, call>>

\* positions the descriptor or stream may have when the wrapper is called
MaxStart == 1

\* offset += buffer.total, for start the offset the position query returned
\* and g the value total held when the buffer was initialised
Reposition(start, g) == AddWrap(AddWrap(g, buf.total), start)

\* what a wrapper returns: texture, the final position, and why it is NULL
Returned(wrapper, start, texture, position, cause) ==
  /\ call' = [call EXCEPT !.wrapper = wrapper, !.start = start, !.texture = texture,
                          !.position = position, !.cause = cause]
  /\ pc' = "returned"
  /\ UNCHANGED <<iov, mem, env, buf, src, rd, loc, ret, gh>>

\* Tex3DS_TextureImportFD around texture_import: the early returns before
\* any read; after the import, lseek(fd, offset, SEEK_SET), whose return is
\* the resulting offset or -1, compared with 0
Tex3DS_TextureImportFD ==
  \E start \in 0 .. MaxStart :
    \/ /\ pc = "meta" /\ gh.copied = 0 /\ src.pos = 0 /\ ~src.failed
       /\ Returned("FD", start, FALSE, start, "early")
    \/ /\ pc = "done" /\ call.entry = "Import" /\ ret = "false"
       /\ Returned("FD", start, FALSE, start + src.pos, "import")
    \/ /\ pc = "done" /\ call.entry = "Import" /\ ret = "true"
       /\ \E g \in Uninitialised, seek \in BOOLEAN :
            LET offset == Reposition(start, g)
                rc     == IF seek THEN offset ELSE -1
            IN  Returned("FD", start, rc = 0,
                         IF seek THEN offset ELSE start + src.pos,
                         IF ~seek THEN "seek" ELSE IF rc = 0 THEN "none" ELSE "offset")

\* Tex3DS_TextureImportStdio: the same with ftello and fseeko, whose return
\* is 0 on success
Tex3DS_TextureImportStdio ==
  \E start \in 0 .. MaxStart :
    \/ /\ pc = "meta" /\ gh.copied = 0 /\ src.pos = 0 /\ ~src.failed
       /\ Returned("Stdio", start, FALSE, start, "early")
    \/ /\ pc = "done" /\ call.entry = "Import" /\ ret = "false"
       /\ Returned("Stdio", start, FALSE, start + src.pos, "import")
    \/ /\ pc = "done" /\ call.entry = "Import" /\ ret = "true"
       /\ \E g \in Uninitialised, seek \in BOOLEAN :
            LET offset == Reposition(start, g)
                rc     == IF seek THEN 0 ELSE -1
            IN  Returned("Stdio", start, rc = 0,
                         IF seek THEN offset ELSE start + src.pos,
                         IF seek THEN "none" ELSE "seek")

\* ------------------------------------------------------------ a second run
\* The same logical input decoded again with a fresh buffer of the same
\* capacity: into a split of the same output capacity from the same
\* full-block source, or into the same region from a source that may return
\* any positive count.  Memory the decoder never wrote is as in the first run.
SecondRun ==
  /\ pc = "done"
  /\ call.entry = "Decompress"
  /\ call.run = 1
  /\ \E v \in {v \in RegionSets : Len(v) > 0} :
       /\ iov' = v
       /\ call' = [call EXCEPT !.run = 2,
                               !.variant = IF v = iov THEN "partial" ELSE "split",
                               !.first = [ret |-> ret, mem |-> mem, nomem |-> gh.nomem]]
       /\ src' = [src EXCEPT !.pos = 0, !.full = (v # iov), !.failed = FALSE,
                              !.late = FALSE, !.part = FALSE]
  /\ mem' = << >>
  /\ buf' = Tex3DS_BufferInit(buf.limit)
  /\ rd' = NoRead
  /\ loc' = NoLocals
  /\ pc' = "call"
  /\ ret' = "none"
  /\ gh' = NoObserved
  /\ UNCHANGED env

\* ------------------------------------------------------------ specifications
\* the steps of Tex3DS_DecompressV and of the strategies it dispatches to
Decode ==
  \/ DecompressV_Enter
  \/ DecompressV_Header
  \/ DecompressV_HeaderExt
  \/ Tex3DS_BufferRead
  \/ iov_read
  \/ iov_read_add
  \/ rle_decode
  \/ rle_run
  \/ lzss_decode
  \/ lzss_block
  \/ lzss_disp
  \/ lz11_decode
  \/ lz11_block
  \/ lz11_disp
  \/ huff_decode
  \/ huff_size
  \/ huff_tree
  \/ huff_done
  \/ huff_word
  \/ huff_bit

Next ==
  \/ Decode
  \/ texture_import
  \/ Tex3DS_TextureImportFD
  \/ Tex3DS_TextureImportStdio

Spec == Init /\ [][Next]_vars

\* one call of Tex3DS_Decompress from a full-block source, then a second run
InitPair == Start("Decompress", <<MaxCap>>, MaxLimit, TRUE, "call")

NextPair == Decode \/ SecondRun

SpecPair == InitPair /\ [][NextPair]_vars

\* ------------------------------------------------------------------ claims
\* the kind of the header that was read is one of the five codec kinds
KnownKind == gh.type >= 0 /\ (gh.type % ExtFlag) \in Kinds

\* C1: whenever the decode returns true, exactly the output bytes at the
\* logical offsets 0 .. effective_size - 1 have been written, and none at or
\* beyond effective_size.
C1_ExactOutput ==
  ret = "true" => DOMAIN mem = 1 .. EffectiveSize

\* C2: a declared size greater than the total capacity does not make the
\* decode fail: it ends true, or false because the source or malloc failed,
\* or on the assert of a back-reference that reaches before the start of the
\* output; and no payload byte is consumed once the first capacity bytes
\* are produced.
C2_TruncatesAtCapacity ==
  (pc = "done" /\ Len(iov) > 0 /\ KnownKind /\ gh.decl > iov_size(iov))
    => /\ ret = "abort" => (gh.br.len > 0 /\ gh.br.disp >= gh.br.p)
       /\ ret = "false" => (src.failed \/ gh.nomem)
       /\ ~gh.over

\* the second run is over and malloc failed in neither run
SecondRunDone(variant) ==
  /\ call.run = 2
  /\ call.variant = variant
  /\ pc = "done"
  /\ ~gh.nomem
  /\ ~call.first.nomem

\* C3: decoding a stream into a region set split into several regions
\* returns the same result and writes the same logical output bytes as
\* decoding it into one contiguous region of the same capacity.
C3_SplitAsContiguous ==
  SecondRunDone("split") => (ret = call.first.ret /\ mem = call.first.mem)

\* C4: for the same logical input, a decode fed by a source that returns
\* partial fills returns the same result and writes the same output bytes as
\* a decode fed by a source that always returns full blocks.
C4_PartialAsFull ==
  SecondRunDone("partial") => (ret = call.first.ret /\ mem = call.first.mem)

C4_Witness ==
  /\ SecondRunDone("partial")
  /\ src.part
  /\ ret = "true"
  /\ Cardinality(DOMAIN mem) = MaxCap

\* C5: after a back-reference of length len and displacement disp was applied
\* at output offset p, out[p + i] = out[p + i - (disp + 1)] for 0 <= i < len.
C5_BackReferenceCopies ==
  (gh.br.len > 0 /\ ret # "abort")
    => \A i \in 0 .. (gh.br.len - 1) :
         /\ MemAt(mem, gh.br.p + i) # Unwritten
         /\ MemAt(mem, gh.br.p + i) = MemAt(mem, gh.br.p + i - (gh.br.disp + 1))

\* ----------------------------------------------------- reference encoders
\* the 4-byte header of a record of kind and declared size n
Header(kind, n) == <<kind, n % 256, (n \div 256) % 256, n \div 65536>>

Drop(o, k) == SubSeq(o, k + 1, Len(o))

\* length of the run of equal bytes at the head of o
RECURSIVE RunLen(_)
RunLen(o) ==
  IF Len(o) < 2 \/ o[1] # o[2] THEN Min(Len(o), 1) ELSE 1 + RunLen(Tail(o))

\* RLE: a run of 3 .. 130 equal bytes is a compressed block, any other byte
\* a literal block of one byte
RECURSIVE EncRle(_)
EncRle(o) ==
  IF Len(o) = 0 THEN << >>
  ELSE LET k == Min(RunLen(o), 130) IN
       IF k >= 3 THEN <<128 + (k - 3), o[1]>> \o EncRle(Drop(o, k))
       ELSE <<0, o[1]>> \o EncRle(Tail(o))

\* LZSS / LZ11 tokens: a byte is raw; 3 .. 16 repeats of the byte before
\* them are one back-reference of displacement 0
RECURSIVE LzTokens(_)
LzTokens(o) ==
  IF Len(o) = 0 THEN << >>
  ELSE LET k == Min(RunLen(o) - 1, 16) IN
       IF k >= 3
       THEN <<[raw |-> TRUE, b |-> o[1], len |-> 1], [raw |-> FALSE, b |-> o[1], len |-> k]>>
              \o LzTokens(Drop(o, 1 + k))
       ELSE <<[raw |-> TRUE, b |-> o[1], len |-> 1]>> \o LzTokens(Tail(o))

\* the flags byte of up to 8 tokens, bit 7 first
RECURSIVE LzFlags(_, _)
LzFlags(ts, bit) ==
  IF Len(ts) = 0 THEN 0
  ELSE (IF ts[1].raw THEN 0 ELSE bit) + LzFlags(Tail(ts), bit \div 2)

LzBlock(t, kind) ==
  IF t.raw THEN <<t.b>>
  ELSE IF kind = KindLzss THEN <<(t.len - 3) * 16, 0>>
  ELSE <<(t.len - 1) * 16, 0>>

RECURSIVE LzBlocks(_, _)
LzBlocks(ts, kind) ==
  IF Len(ts) = 0 THEN << >> ELSE LzBlock(ts[1], kind) \o LzBlocks(Tail(ts), kind)

RECURSIVE LzPack(_, _)
LzPack(ts, kind) ==
  IF Len(ts) = 0 THEN << >>
  ELSE LET g == SubSeq(ts, 1, Min(8, Len(ts))) IN
       <<LzFlags(g, 128)>> \o LzBlocks(g, kind) \o LzPack(Drop(ts, Len(g)), kind)

\* Huffman over two symbols: a table of one node (tree size byte 1) whose
\* children are both data, 128 for bit 0 and 192 for bit 1; the bits fill
\* 32-bit words from bit 31 down, the words are stored little-endian
RECURSIVE HuffByte(_, _)
HuffByte(o, bit) ==
  IF Len(o) = 0 \/ bit = 0 THEN 0
  ELSE (IF o[1] = 192 THEN bit ELSE 0) + HuffByte(Tail(o), bit \div 2)

RECURSIVE HuffWords(_)
HuffWords(o) ==
  IF Len(o) = 0 THEN << >>
  ELSE <<HuffByte(Drop(o, Min(24, Len(o))), 128), HuffByte(Drop(o, Min(16, Len(o))), 128),
         HuffByte(Drop(o, Min(8, Len(o))), 128), HuffByte(o, 128)>>
         \o HuffWords(Drop(o, Min(32, Len(o))))

Encode(kind, o) ==
  CASE kind = KindRle  -> EncRle(o)
    [] kind = KindLzss -> LzPack(LzTokens(o), KindLzss)
    [] kind = KindLz11 -> LzPack(LzTokens(o), KindLz11)
    [] kind = KindHuff -> <<1, 192, 128, 192>> \o HuffWords(o)

\* the originals: the sequences of MaxCap bytes over two bytes of the kind's
\* input family
Originals(kind) ==
  [1 .. MaxCap -> CASE kind = KindRle  -> {0, 1}
                    [] kind = KindHuff -> {128, 192}
                    [] OTHER           -> {0, 64}]

IsPrefix(a, b) == Len(a) <= Len(b) /\ SubSeq(b, 1, Len(a)) = a

\* C6: for the four non-stored codecs and every original, decoding the stream
\* a reference encoder made of it into an output whose capacity is the
\* length of the original succeeds and reproduces the original.
C6_RoundTrip ==
  (/\ pc = "done"
   /\ call.entry = "DecompressV"
   /\ gh.type \in Kinds \ {KindStored}
   /\ gh.decl = iov_size(iov)
   /\ ~gh.nomem)
    => \A o \in Originals(gh.type) :
         IsPrefix(Header(gh.type, Len(o)) \o Encode(gh.type, o), src.file)
           => (ret = "true" /\ mem = o)

\* C7: once a pull-source call has returned 0 or a negative value the decode
\* has returned false, and from then on no pull-source call is made, no
\* output byte is written and the result does not change.
C7_FailsAtOnce ==
  /\ [](src.failed => ret = "false")
  /\ [][src.failed => (src' = src /\ mem' = mem /\ ret' = ret)]_vars

C7_Witness ==
  src.failed /\ ret = "false" /\ Cardinality(DOMAIN mem) > 0 /\ pc = "done"

\* C8: Tex3DS_BufferRead(dest, n) goes on to its caller (returns true) only
\* with exactly n bytes delivered, and ends false whenever the source returns
\* 0 or less before that, also after resident bytes were copied: it is left
\* with bytes missing only by the failed return.
C8_AllOrNothing ==
  /\ pc = rd.k => (rd.n = 0 /\ Len(rd.acc) = rd.want)
  /\ pc = "BufferRead" => (rd.n > 0 /\ rd.n + Len(rd.acc) = rd.want /\ ~src.failed)
  /\ (rd.n > 0 /\ pc # "BufferRead") => (ret = "false" /\ src.failed)

C8_Witness ==
  ret = "false" /\ rd.n > 0 /\ Len(rd.acc) > 0

\* C9: Tex3DS_Buffer.total is 0 after Tex3DS_BufferInit and equals, after
\* any sequence of Tex3DS_BufferRead and Tex3DS_BufferGet calls, the number
\* of bytes those calls delivered to their callers.
C9_TotalCountsDelivered ==
  TotalValues(buf) = {gh.copied}

\* C10: when Tex3DS_TextureImportFD or Tex3DS_TextureImportStdio returns a
\* texture, the position of the descriptor or stream is start + c, for c the
\* number of input bytes the import consumed.
C10_PositionAfterImport ==
  (pc = "returned" /\ call.texture) => call.position = call.start + gh.copied

\* C11: Tex3DS_TextureImportFD returns the texture exactly when the inner
\* import succeeded and the repositioning seek succeeded, whatever the start
\* offset; NULL comes only from the buffer allocation, the position query,
\* the inner import or the seek failing.
C11_FDReturnsTexture ==
  (pc = "returned" /\ call.wrapper = "FD")
    => (call.texture <=> (ret = "true" /\ call.cause # "seek"))

\* C12: a header whose kind is none of the five codec kinds makes the call
\* return false with no output byte written and no byte delivered from the
\* buffer after the 4 (or 8) header bytes: the buffer's cursor stands right
\* behind the header.
C12_UnknownKind ==
  (pc = "done" /\ gh.type >= 0 /\ ~KnownKind /\ ~src.failed)
    => /\ ret = "false"
       /\ mem = << >>
       /\ gh.copied = HeaderLen(gh.type)
       /\ src.pos - (buf.size - buf.pos) = HeaderLen(gh.type)

\* an unknown kind behind an 8-byte header was rejected while the buffer
\* held a byte read ahead
C12_Witness ==
  /\ pc = "done" /\ gh.type = ExtFlag + KindUnknown /\ ~src.failed
  /\ ret = "false" /\ buf.pos < buf.size

\* C13: Tex3DS_DecompressV called with zero regions returns false in its
\* first step, with the pull source not called and the buffer (cursor,
\* filled count, consumed total) unchanged.
C13_NoRegions ==
  [][(pc = "call" /\ Len(iov) = 0)
       => (ret' = "false" /\ pc' = "done" /\ buf' = buf /\ src' = src /\ mem' = mem)]_vars

C13_Witness ==
  /\ call.entry = "DecompressV" /\ Len(iov) = 0
  /\ pc = "done" /\ ret = "false" /\ src.pos = 0 /\ src.file = << >>

\* the header bytes of the record, as the source delivered them
HeaderBytes == SubSeq(src.file, src.meta + 1, src.meta + HeaderLen(src.file[src.meta + 1]))

\* where the switch of the dispatcher goes for a kind
EntryPc(kind) ==
  CASE kind = KindStored -> "iov_read"
    [] kind = KindLzss   -> "lzss"
    [] kind = KindLz11   -> "lz11"
    [] kind = KindHuff   -> "huff"
    [] kind = KindRle    -> "rle"
    [] OTHER             -> "done"

\* C14: when the dispatcher enters the switch it has consumed exactly 4
\* header bytes if bit 7 of byte 0 is clear and exactly 8 if it is set; the
\* kind it switches on is byte 0 with bit 7 cleared; the declared size has
\* byte1 + 2^8 * byte2 + 2^16 * byte3 in its bits 0-23 and, with bit 7 set,
\* byte 4 in its bits 24-31 (else 0), so it is a value of 32 bits.
C14_HeaderParse ==
  [][(pc \in {"header", "header_ext"} /\ pc' # "BufferRead")
       => LET H == HeaderBytes IN
          /\ (pc = "header") <=> (H[1] < ExtFlag)
          /\ gh'.copied - src.meta = HeaderLen(H[1])
          /\ pc' = EntryPc(H[1] % ExtFlag)
          /\ Lo24(gh'.decl) = H[2] + 256 * H[3] + 65536 * H[4]
          /\ Hi8(gh'.decl) = IF H[1] >= ExtFlag THEN H[5] ELSE 0]_vars

\* a stored record whose 8-byte header has byte 4 = 0x80 was decoded up to
\* the capacity of the output
C14_Witness ==
  /\ pc = "done" /\ ret = "true"
  /\ gh.type = ExtFlag + KindStored /\ Hi8(gh.decl) = 128
  /\ Cardinality(DOMAIN mem) = MaxCap

\* C15: a successful decode of a stored record has consumed exactly
\* effective_size payload bytes behind the header, the buffer's cursor
\* stands right behind them, and the output byte at each offset
\* i < effective_size is payload byte i, no other offset being written.
C15_StoredCopies ==
  (pc = "done" /\ ret = "true" /\ gh.type >= 0 /\ gh.type % ExtFlag = KindStored)
    => LET first == src.meta + HeaderLen(gh.type) IN
       /\ gh.copied = first + EffectiveSize
       /\ src.pos - (buf.size - buf.pos) = first + EffectiveSize
       /\ DOMAIN mem = 1 .. EffectiveSize
       /\ \A i \in 0 .. (EffectiveSize - 1) : MemAt(mem, i) = src.file[first + i + 1]

\* a stored record longer than the output was decoded into two regions from
\* a source that returned less than was asked
C15_Witness ==
  /\ pc = "done" /\ ret = "true" /\ gh.type = KindStored
  /\ Len(iov) = 2 /\ src.part
  /\ ULess(iov_size(iov), gh.decl) /\ Cardinality(DOMAIN mem) = MaxCap

\* the payload bytes the decode has consumed, in the order it consumed them
Consumed ==
  SubSeq(src.file, src.meta + HeaderLen(gh.type) + 1, gh.copied)

\* the output of the RLE rules on the payload pay with remaining bytes to
\* produce: a control byte c >= 0x80 and its data byte v give
\* min((c & 0x7F) + 3, remaining) copies of v, a control byte c < 0x80 gives
\* the min((c & 0x7F) + 1, remaining) bytes behind it (as many as pay holds)
RECURSIVE RleOutput(_, _)
RleOutput(pay, remaining) ==
  IF remaining = 0 \/ Len(pay) = 0 THEN << >>
  ELSE LET c == pay[1] IN
       IF c >= 128
       THEN LET n == Min((c % 128) + 3, remaining) IN
            IF Len(pay) < 2 THEN << >>
            ELSE [i \in 1 .. n |-> pay[2]] \o RleOutput(Drop(pay, 2), remaining - n)
       ELSE LET n == Min((c % 128) + 1, remaining) IN
            IF Len(pay) < 1 + n THEN SubSeq(pay, 2, Len(pay))
            ELSE SubSeq(pay, 2, 1 + n) \o RleOutput(Drop(pay, 1 + n), remaining - n)

\* C16: in the RLE strategy the output is at every moment what the block
\* rules make of the payload consumed so far (runs of min((c & 0x7F) + 3,
\* remaining) copies, literals of min((c & 0x7F) + 1, remaining) bytes), and
\* at the head of each block the remaining size is the effective size less
\* the bytes appended.
C16_RleBlocks ==
  (gh.type >= 0 /\ gh.type % ExtFlag = KindRle /\ gh.copied >= src.meta + HeaderLen(gh.type))
    => /\ mem = RleOutput(Consumed, EffectiveSize)
       /\ pc = "rle" => loc.size = EffectiveSize - Len(RleOutput(Consumed, EffectiveSize))

\* a literal block and a run clamped to the remaining size were decoded
\* into two regions
C16_Witness ==
  /\ pc = "done" /\ ret = "true" /\ Len(iov) = 2
  /\ IsPrefix(<<KindRle, 3, 0, 0, 0, 1, 128, 0>>, src.file)
  /\ mem = <<1, 0, 0>>

\* memory m1 is memory m0 after n bytes were copied to offset p from D + 1
\* bytes behind, one byte at a time
BackCopy(m0, m1, p, n, D) ==
  /\ DOMAIN m1 = DOMAIN m0 \cup ((p + 1) .. (p + n))
  /\ \A j \in 0 .. (p - 1) : MemAt(m1, j) = MemAt(m0, j)
  /\ \A i \in 0 .. (n - 1) : MemAt(m1, p + i) = MemAt(m1, p + i - (D + 1))

\* C17: in the LZSS strategy a compressed block consumes two bytes b0, b1 and
\* copies min((b0 >> 4) + 3, remaining) bytes from ((b0 & 0x0F) << 8 | b1) + 1
\* behind the output position; a raw block consumes one byte and appends it;
\* the remaining size decreases by the number of bytes the block appended.
C17_LzssBlocks ==
  /\ [][(pc = "lzss_disp" /\ gh'.copied = gh.copied + 1)
          => LET b0 == src.file[gh.copied]
                 b1 == src'.file[gh.copied + 1]
                 n  == Min((b0 \div 16) + 3, loc.size)
                 D  == (b0 % 16) * 256 + b1
                 p  == Offset(iov, loc.out)
             IN  D + 1 <= p => (BackCopy(mem, mem', p, n, D) /\ loc'.size = loc.size - n)]_vars
  /\ [][(gh.type = KindLzss /\ pc \in {"lzss", "lzss_block"} /\ pc' = "lzss"
           /\ gh'.copied = gh.copied + 1)
          => /\ mem' = MemStore(mem, Offset(iov, loc.out), src'.file[gh.copied + 1])
             /\ DOMAIN mem' = 1 .. (Offset(iov, loc.out) + 1)
             /\ loc'.size = loc.size - 1]_vars

\* the number of bytes of an LZ11 compressed block, its length and its
\* displacement, by the bytes B of the block
Lz11Form(B) ==
  LET t == B[1] \div 16 IN
  [bytes |-> IF t = 0 THEN 3 ELSE IF t = 1 THEN 4 ELSE 2,
   len   |-> IF t = 0 THEN ((B[1] * 16) + (B[2] \div 16)) + 17
             ELSE IF t = 1 THEN (((B[1] % 16) * 4096) + (B[2] * 16) + (B[3] \div 16)) + 273
             ELSE (B[1] \div 16) + 1,
   disp  |-> (B[Len(B) - 1] % 16) * 256 + B[Len(B)]]

\* C18: in the LZ11 strategy the top nibble t of the first byte of a
\* compressed block selects its form (t = 0: 3 bytes, length
\* ((b0 << 4) | (b1 >> 4)) + 0x11; t = 1: 4 bytes, length
\* (((b0 & 0xF) << 12) | (b1 << 4) | (b2 >> 4)) + 0x111; else 2 bytes, length
\* (b0 >> 4) + 1), the displacement is the low nibble of the byte before
\* the last and the last byte, and min(length, remaining) bytes are copied
\* from displacement + 1 behind.
C18_Lz11Blocks ==
  [][(pc = "lz11_disp" /\ gh'.copied = gh.copied + 1 /\ loc'.displen = << >>)
       => LET k == Len(loc.displen) + 1
              B == SubSeq(src'.file, gh.copied + 2 - k, gh.copied + 1)
              f == Lz11Form(B)
              n == Min(f.len, loc.size)
              p == Offset(iov, loc.out)
          IN  /\ k = f.bytes
              /\ f.disp + 1 <= p => (BackCopy(mem, mem', p, n, f.disp) /\ loc'.size = loc.size - n)]_vars

\* bit i (0 .. 31) of the word whose byte j (0 .. 3, least significant first)
\* is w[j + 1]
LittleEndianBit(w, i) ==
  IF i >= 24 THEN (w[4] \div (2 ^ (i - 24))) % 2
  ELSE ((w[1] + 256 * w[2] + 65536 * w[3]) \div (2 ^ i)) % 2

\* tree[i] of a decode step: the byte read into the table, else the byte the
\* step found in the memory behind it
StepTree(i) == IF i < Len(loc.tree) THEN loc.tree[i + 1] ELSE env'.fill

\* C19: the Huffman decode takes its bits from words of 4 consumed bytes,
\* least significant byte first, from bit 31 down to bit 0; at node k a bit b
\* selects child (k with bit 0 cleared) + 2 * (tree[k] & 0x1F) + 2 + b; with
\* the terminal flag of that side set (0x80 for bit 0, 0x40 for bit 1) the
\* byte tree[child] is appended and the traversal restarts at node 1, else
\* child becomes the node; a decode that returns true has appended
\* effective_size bytes.
C19_HuffTraversal ==
  /\ [][(pc = "huff_loop" /\ loc.size > 0 /\ loc.mask = 0 /\ loc'.mask # 0)
          => /\ loc'.mask = 32
             /\ loc'.word = SubSeq(src'.file, gh'.copied - 3, gh'.copied)]_vars
  /\ [][(pc = "huff_loop" /\ loc.size > 0 /\ loc.mask > 0)
          => LET k     == loc.node
                 b     == LittleEndianBit(loc.word, loc.mask - 1)
                 child == (k - (k % 2)) + 2 * (StepTree(k) % 32) + 2 + b
                 flag  == IF b = 0 THEN 128 ELSE 64
             IN  /\ loc'.mask = loc.mask - 1
                 /\ IF (StepTree(k) \div flag) % 2 = 1
                    THEN /\ mem' = MemStore(mem, Cardinality(DOMAIN mem), StepTree(child))
                         /\ loc'.node = 1
                         /\ loc'.size = loc.size - 1
                    ELSE /\ mem' = mem
                         /\ loc'.node = child
                         /\ loc'.size = loc.size]_vars
  /\ []((pc = "done" /\ ret = "true" /\ gh.type = KindHuff)
          => DOMAIN mem = 1 .. EffectiveSize)

\* a decode through the two-level tree: bit 31 = 0 leads to node 2, bit 30 = 1
\* to its data child 5
C19_Witness ==
  /\ pc = "done"
  /\ ret = "true"
  /\ IsPrefix(<<KindHuff, 1, 0, 0, 2, 0, 192, 192, 128, 192, 0, 0, 0, 64>>, src.file)
  /\ mem = <<192>>

\* bytes of the payload delivered so far, and the 1 + (2 * (n + 1) - 1) bytes
\* of the size byte n and the tree table at the head of the payload
PayloadHave == gh.copied - (src.meta + HeaderLen(gh.type))

TableNeed == 1 + (2 * (src.file[src.meta + HeaderLen(gh.type) + 1] + 1) - 1)

\* C20: the Huffman decode consumes the size byte n and then exactly
\* 2 * (n + 1) - 1 tree bytes before it writes an output byte or consumes a
\* byte of a bitstream word; when the input ends inside the tree table the
\* decode returns false with no output byte written.
C20_TreeFirst ==
  (gh.type = KindHuff /\ PayloadHave >= 1)
    => /\ (pc = "huff_tree") => (PayloadHave = TableNeed /\ mem = << >> /\ loc.word = << >>)
       /\ (mem # << >> \/ loc.word # << >> \/ pc = "huff_loop")
            => /\ PayloadHave >= TableNeed
               /\ loc.tree = SubSeq(src.file, src.meta + HeaderLen(gh.type) + 1,
                                    src.meta + HeaderLen(gh.type) + TableNeed)
       /\ (PayloadHave < TableNeed) => (mem = << >> /\ loc.word = << >>)
       /\ (pc = "done" /\ PayloadHave < TableNeed) => ret = "false"

\* the input ends behind the second byte of a five-byte tree table
C20_Witness ==
  /\ pc = "done"
  /\ ret = "false"
  /\ gh.type = KindHuff
  /\ src.failed
  /\ PayloadHave = 3
  /\ TableNeed = 6
  /\ mem = << >>

\* the call runs the Huffman strategy with the table allocated
HuffRunning ==
  \/ pc \in {"huff_size", "huff_tree", "huff_loop"}
  \/ pc = "BufferRead" /\ rd.dst = "tree"

\* C21: on every exit path of the Huffman strategy (success, failure reading
\* the tree size, the tree or a bitstream word) the table the call allocated
\* is released when the call returns, by the returning step and once; the
\* table is live as long as the strategy runs, so that no step uses it after
\* its release.
C21_TreeReleased ==
  /\ []((gh.type = KindHuff /\ pc = "done") => loc.heap = IF gh.nomem THEN "none" ELSE "freed")
  /\ [](HuffRunning => loc.heap = "live")
  /\ [][(loc'.heap # loc.heap /\ loc'.heap = "freed") => (loc.heap = "live" /\ pc' = "done")]_vars
  /\ [][(loc.heap = "freed") => (loc'.heap = "freed" /\ loc'.tree = loc.tree /\ mem' = mem)]_vars

\* the source ended inside a bitstream word, behind a table of 6 bytes
C21_Witness ==
  /\ pc = "done"
  /\ ret = "false"
  /\ gh.type = KindHuff
  /\ loc.heap = "freed"
  /\ Len(loc.tree) = 6
  /\ Len(loc.word) \in 1 .. 3

\* C22: with a source that returns at most the maximum it is asked for,
\* 0 <= cursor <= filled <= limit holds after every Tex3DS_BufferRead and
\* Tex3DS_BufferGet, successful or failed, and the bytes at the offsets
\* [cursor, filled) of the storage are the bytes pulled from the source and
\* not yet delivered.
C22_BufferBounds ==
  /\ 0 <= buf.pos
  /\ buf.pos <= buf.size
  /\ buf.size <= buf.limit
  /\ Len(buf.data) = buf.size
  /\ SubSeq(buf.data, buf.pos + 1, buf.size) = SubSeq(src.file, gh.copied + 1, src.pos)

\* a decode fed by partial fills ended with a byte read ahead behind the cursor
C22_Witness ==
  /\ pc = "done"
  /\ ret = "true"
  /\ src.part
  /\ 0 < buf.pos
  /\ buf.pos < buf.size
  /\ buf.size = buf.limit

\* the bytes of the source's sequence a step delivers, by their count
NextOfSource == SubSeq(src'.file, gh.copied + 1, gh'.copied)

\* C23: the bytes Tex3DS_BufferRead and Tex3DS_BufferGet deliver are, in the
\* order of their delivery, the next bytes of the source's sequence, whatever
\* the capacity and the chunking: a read that straddles refills appends the
\* resident bytes, then the pulled ones, and a successful read has delivered
\* as many bytes as were asked for; no byte is lost, repeated or reordered.
C23_DeliversPrefix ==
  /\ [][gh'.copied >= gh.copied /\ Len(src'.file) >= gh'.copied]_vars
  /\ [][(pc = "BufferRead")
          => /\ rd'.acc = rd.acc \o NextOfSource
             /\ (pc' = rd.k) => Len(rd'.acc) = rd.want]_vars
  /\ [][(pc # "BufferRead" /\ gh'.copied # gh.copied)
          => /\ gh'.copied = gh.copied + 1
             /\ (pc = "lz11" \/ (pc = "lzss" /\ loc.mask = 0)) => loc'.flags = NextOfSource[1]
             /\ (pc \in {"lzss_block", "lz11_block"} /\ pc' \in {"lzss_disp", "lz11_disp"})
                  => loc'.displen = NextOfSource
             /\ (pc \in {"lzss_block", "lz11_block"} /\ pc' \notin {"lzss_disp", "lz11_disp"})
                  => mem' = MemStore(mem, Offset(iov, loc.out), NextOfSource[1])
             /\ (pc = "huff_loop") => loc'.word = loc.word \o NextOfSource
             /\ (pc = "meta" /\ pc' = "meta") => loc'.displen = loc.displen \o NextOfSource]_vars

\* the five bytes of a tree table were read through a buffer of two bytes
\* fed by partial fills
C23_Witness ==
  /\ pc = "huff_tree"
  /\ Len(rd.acc) = 5
  /\ buf.limit = 2
  /\ src.part

\* a cursor at a valid position, or at the end-of-stream position
CursorOk(v, it) ==
  \/ it.num < Len(v) /\ it.pos < v[it.num + 1]
  \/ it.num = Len(v) /\ it.pos = 0

\* the byte count of the cursor operation a step applies to the output
\* cursor: iov_add(out, bytes) of iov_read, iov_memset(out, val, len),
\* iov_memmove(out, in, size), iov_increment(out)
OpBytes ==
  CASE pc = "iov_read_add" -> Len(rd.acc)
    [] pc = "rle_run" -> loc.len
    [] pc \in {"lzss_disp", "lz11_disp"} -> loc'.size
    [] OTHER -> 1

\* C24: during a decode into regions of positive length the output cursor is,
\* after every cursor operation, at a valid position (num < cnt and
\* pos < size[num]) or at the end-of-stream position (num = cnt and pos = 0),
\* and its logical offset has changed by the byte count of the operation.
C24_CursorValid ==
  /\ [](CursorOk(iov, loc.out))
  /\ [][(loc'.out # loc.out /\ pc # "meta" /\ pc \notin {"header", "header_ext"} /\ ret' # "abort")
          => Offset(iov, loc'.out) = Offset(iov, loc.out) + OpBytes]_vars

\* C25: the LZSS and LZ11 strategies retreat the cursor only by a distance
\* displacement + 1 that is at most the number of output bytes produced so
\* far, so that the retreat never moves before region 0 offset 0 and the
\* assert of iov_sub never fails.
C25_RetreatGuarded ==
  gh.br.len > 0 => gh.br.disp + 1 <= gh.br.p

\* bytes and length of the compressed block that starts at pay[i]; bytes is
\* all the payload holds of it when the payload ends inside the block
LzBlockAt(pay, i, kind) ==
  LET need == IF kind = KindLzss THEN 2
              ELSE IF pay[i] \div 16 = 0 THEN 3
              ELSE IF pay[i] \div 16 = 1 THEN 4
              ELSE 2
  IN  IF i + need - 1 > Len(pay)
      THEN [whole |-> FALSE, bytes |-> Len(pay) - i + 1, len |-> 0]
      ELSE [whole |-> TRUE, bytes |-> need,
            len   |-> IF kind = KindLzss THEN (pay[i] \div 16) + 3
                      ELSE Lz11Form(SubSeq(pay, i, i + need - 1)).len]

\* The payload pay of an LZSS or LZ11 record read as the format lays it out:
\* a flags byte, then up to GroupSize blocks gated by its bits from bit 7
\* down, a clear bit for a raw byte and a set bit for a compressed block, until
\* the remaining size rem is 0.  i is the next byte of pay, j the number of
\* blocks the flags byte has gated.  The result tells what comes next (the
\* end, a flags byte, a block, or the rest of a block), the bit of the next
\* block, the remaining size and the number of flags bytes met.
RECURSIVE LzWalk(_, _, _, _, _, _, _)
LzWalk(pay, i, rem, flags, j, nf, kind) ==
  IF rem = 0
  THEN [next |-> "end", bit |-> 0, rem |-> 0, flags |-> nf, used |-> i - 1]
  ELSE IF j = GroupSize
  THEN IF i > Len(pay)
       THEN [next |-> "flags", bit |-> 0, rem |-> rem, flags |-> nf, used |-> i - 1]
       ELSE LzWalk(pay, i + 1, rem, pay[i], 0, nf + 1, kind)
  ELSE LET bit == (flags \div (2 ^ (7 - j))) % 2 IN
       IF i > Len(pay)
       THEN [next |-> "block", bit |-> bit, rem |-> rem, flags |-> nf, used |-> i - 1]
       ELSE IF bit = 0
       THEN LzWalk(pay, i + 1, rem - 1, flags, j + 1, nf, kind)
       ELSE LET b == LzBlockAt(pay, i, kind) IN
            IF ~b.whole
            THEN [next |-> "inside", bit |-> 1, rem |-> rem, flags |-> nf, used |-> Len(pay)]
            ELSE LzWalk(pay, i + b.bytes, rem - Min(b.len, rem), flags, j + 1, nf, kind)

\* where the decode stands in an LZSS or LZ11 payload: before a flags byte
\* (or at the end), before a block, or inside a compressed block
LzStands ==
  IF pc \in {"lzss_disp", "lz11_disp"} THEN "inside"
  ELSE IF pc \in {"lzss_block", "lz11_block"} \/ (pc = "lzss" /\ loc.size > 0 /\ loc.mask # 0)
  THEN "block"
  ELSE IF loc.size > 0 THEN "flags" ELSE "end"

\* the bit of the flags byte the decode tests for its next block
LzBit ==
  IF gh.type = KindLzss THEN (IF BitAnd(loc.flags, loc.mask) # 0 THEN 1 ELSE 0)
  ELSE (IF loc.flags >= 128 THEN 1 ELSE 0)

\* C26: in the LZSS and LZ11 strategies a flags byte is consumed once before
\* each group of up to 8 blocks, its bits are used from bit 7 down to bit 0,
\* one per block, and no flags byte is consumed once the remaining size is 0,
\* also when it reaches 0 at the end of a group of 8 blocks: the bytes
\* consumed are the flags bytes and blocks of the format and nothing more.
C26_FlagsPerGroup ==
  (/\ gh.type \in {KindLzss, KindLz11}
   /\ pc \in {"lzss", "lzss_block", "lzss_disp", "lz11", "lz11_block", "lz11_disp"}
        \/ (pc = "done" /\ ret = "true"))
    => LET w == LzWalk(Consumed, 1, EffectiveSize, 0, GroupSize, 0, gh.type) IN
       /\ w.used = Len(Consumed)
       /\ w.rem = loc.size
       /\ w.next = LzStands
       /\ (w.next = "block") => w.bit = LzBit
       /\ (pc = "done") => w.next = "end"

\* a group of 8 raw blocks filled the output; the byte behind them was
\* pulled and is not consumed
C26_Witness ==
  /\ pc = "done"
  /\ ret = "true"
  /\ gh.type = KindLz11
  /\ EffectiveSize = GroupSize
  /\ Len(Consumed) = 1 + GroupSize
  /\ Len(src.file) > gh.copied
  /\ buf.pos < buf.size

\* the call stands at the head of the main loop of a decode strategy
LoopHead == pc \in {"rle", "lzss", "lz11", "huff_loop"}

\* C27: in every decode strategy, at the head of the main loop the logical
\* offset of the output cursor is effective_size minus the remaining size:
\* bytes produced + remaining = effective_size after every raw byte,
\* back-reference copy, run fill and literal run.
C27_ProducedPlusRemaining ==
  (LoopHead /\ gh.type \in Kinds)
    => /\ CursorOk(iov, loc.out)
       /\ Offset(iov, loc.out) + loc.size = EffectiveSize
       /\ Cardinality(DOMAIN mem) + loc.size = EffectiveSize

\* C28: during a decode no cursor operation reads a region descriptor at an
\* index >= the region count; when a stored copy, literal run, run fill or
\* back-reference copy fills the output up to its total capacity, iov_add
\* leaves the cursor at the end-of-stream position without inspecting the
\* region behind the last one.
C28_NoDescriptorBeyond ==
  env.oob = NotRead

\* C29: during Huffman decoding every tree index that is read, the current
\* node and the selected child, is at least 1 and at most 2 * (n + 1) - 1 for
\* the tree size byte n, hence inside the bytes read for the tree: no byte
\* of the table is read that the table read did not fill.
C29_TreeIndexInside ==
  /\ env.fill = NotRead
  /\ (pc = "huff_loop" /\ loc.mask > 0) => (loc.node >= 1 /\ loc.node <= Len(loc.tree) - 1)

\* ------------------------------------------------------------- termination
\* One call of Tex3DS_DecompressV on regions of positive length, run to its
\* end: the call is sequential code, so a step that can be taken is taken,
\* and every call of the source returns.
InitLive ==
  \E v \in RegionSets : Len(v) > 0 /\ Start("DecompressV", v, MaxLimit, TRUE, "call")

SpecLive == InitLive /\ [][Decode]_vars /\ WF_vars(Decode)

\* C30: every call of Tex3DS_DecompressV on regions of positive length
\* returns, true or false, for every header and payload, the source
\* delivering finitely many bytes: no loop of a strategy or of a cursor helper
\* runs forever.
C30_Returns ==
  <>(pc = "done" /\ ret \in {"true", "false"})

\* ------------------------------------------------------- the cursor alone
\* Largest number of regions and largest region length of the region sets
\* the cursor helpers are applied to on their own.
MaxCursorRegions == 3
MaxRegionLen == 3

CursorRegionSets ==
  {v \in SeqsUpTo(1 .. MaxRegionLen, MaxCursorRegions) : Len(v) > 0}

\* a cursor fresh from iov_begin on a region set
InitCursor ==
  \E v \in CursorRegionSets : Start("Cursor", v, 1, TRUE, "cursor")

\* the cursor after a helper returned c; the helper and its size are noted
Moved(c, helper, size) ==
  /\ ~c.ab
  /\ loc' = [loc EXCEPT !.out = [num |-> c.num, pos |-> c.pos],
                        !.caller = helper, !.n = size]
  /\ UNCHANGED <<iov, mem, env, buf, src, rd, pc, ret, gh, call>>

\* iov_add(&it, size) to a position inside the regions
Apply_iov_add ==
  /\ pc = "cursor"
  /\ \E size \in 0 .. iov_size(iov) :
       /\ Offset(iov, loc.out) + size < iov_size(iov)
       /\ Moved(iov_add(iov, env.oob, loc.out, size), "iov_add", size)

\* iov_sub(&it, size) by at most the offset of the cursor
Apply_iov_sub ==
  /\ pc = "cursor"
  /\ \E size \in 0 .. Offset(iov, loc.out) :
       Moved(iov_sub(iov, env.oob, loc.out, size), "iov_sub", size)

\* iov_increment(&it) to a position inside the regions
Apply_iov_increment ==
  /\ pc = "cursor"
  /\ Offset(iov, loc.out) + 1 < iov_size(iov)
  /\ Moved(iov_increment(iov, loc.out), "iov_increment", 1)

NextCursor ==
  \/ Apply_iov_add
  \/ Apply_iov_sub
  \/ Apply_iov_increment

SpecCursor == InitCursor /\ [][NextCursor]_vars

\* the (num, pos) a helper left
At(c) == [num |-> c.num, pos |-> c.pos]

\* n successive calls of iov_increment
RECURSIVE Increments(_, _, _)
Increments(v, it, n) ==
  IF n = 0 THEN [num |-> it.num, pos |-> it.pos, ab |-> FALSE]
  ELSE LET c == iov_increment(v, it) IN
       IF c.ab THEN c ELSE Increments(v, At(c), n - 1)

\* C31: for every region set with positive lengths, every valid cursor
\* position at logical offset o and every n with o + n < total capacity,
\* iov_add(n) followed by iov_sub(n) restores the same (num, pos);
\* iov_add(a) followed by iov_add(b) gives the (num, pos) of iov_add(a + b);
\* and n calls of iov_increment give the (num, pos) of iov_add(n).
C31_CursorAlgebra ==
  (pc = "cursor")
    => LET c    == loc.out
           room == iov_size(iov) - Offset(iov, c) - 1
       IN  /\ iov_addr(iov, c)
           /\ \A n \in 0 .. room :
                LET a == iov_add(iov, env.oob, c, n) IN
                /\ ~a.ab
                /\ iov_addr(iov, At(a))
                /\ Offset(iov, At(a)) = Offset(iov, c) + n
                /\ iov_sub(iov, env.oob, At(a), n) = [num |-> c.num, pos |-> c.pos, ab |-> FALSE]
                /\ Increments(iov, c, n) = a
                /\ \A k \in 0 .. n :
                     iov_add(iov, env.oob, At(iov_add(iov, env.oob, c, k)), n - k) = a

\* the cursor was taken back from region 2 to the start of region 0, over
\* two boundaries, by one iov_sub
C31_Witness ==
  /\ pc = "cursor"
  /\ iov = <<1, 2, 3>>
  /\ loc.caller = "iov_sub"
  /\ loc.n = 4
  /\ loc.out = iov_begin

====
